---------------------------- MODULE Spec2Model ----------------------------
(***************************************************************************)
(* Scheduled-email delivery subsystem of the broker backend:               *)
(*   backend/app/email/store.py   EmailStore (records and indexes)         *)
(*   backend/app/email/tasks.py   send_email, process_pending_emails,      *)
(*                                cleanup_old_emails, recurrence           *)
(*   backend/app/email/router.py  schedule, cancel, send-now               *)
(*                                                                         *)
(* Time is counted in days.  A handler is one atomic step between two      *)
(* blocking calls (a broker publish, a provider call); handlers of         *)
(* different requests and tasks interleave at those calls.                 *)
(***************************************************************************)
EXTENDS Integers, Sequences, FiniteSets, TLC

(* ------------------------------ bounds -------------------------------- *)
MaxEmails == 1
MaxTasks == 2
MaxTime == 1
MaxLimit == 2
MaxStored == 3

(* ------------------------- program constants -------------------------- *)
DefaultMaxRetries == 3
CeleryMaxRetries == 3
ScanLimit == 100
DailyDays == 1
WeeklyDays == 7
MonthlyDays == 30

(* Optional[T]: None is the empty tuple, a present value v is <<v>>. *)
None == << >>
Some(v) == <<v>>
IsSet(o) == o # None
Val(o) == o[1]

EmailStatus == {"pending", "queued", "sending", "sent", "failed", "cancelled"}
EmailPriority == {"low", "normal", "high", "urgent"}
RecurrenceType == {"none", "daily", "weekly", "monthly", "custom"}

Users == {"u1"}
Policies == {None, Some("p1")}

(* ScheduledEmail(...): a freshly constructed record; the fields the       *)
(* caller does not pass take the model's defaults.                         *)
ScheduledEmail(prio, sched, rec, rend, rcount, user, policy, t) ==
    [ status           |-> "pending",
      priority         |-> prio,
      scheduled_at     |-> sched,
      recurrence       |-> rec,
      recurrence_end   |-> rend,
      recurrence_count |-> rcount,
      user_id          |-> user,
      policy_id        |-> policy,
      updated_at       |-> t,
      sent_at          |-> None,
      error_message    |-> None,
      retry_count      |-> 0,
      max_retries      |-> DefaultMaxRetries,
      message_id       |-> None ]

(* ------------------------------ the store ----------------------------- *)
(* A store value S: S.heap maps every id ever constructed to its object    *)
(* (a task keeps its reference after the record is deleted), S.emails is   *)
(* the key sequence of EmailStore._emails in insertion order, and the two  *)
(* indexes map a user / policy id to its list of email ids.                *)
InSeq(x, s) == \E i \in 1..Len(s) : s[i] = x
RemoveFirst(s, x) ==
    IF InSeq(x, s)
    THEN LET k == CHOOSE i \in 1..Len(s) :
                     s[i] = x /\ \A j \in 1..(i - 1) : s[j] # x
         IN  [i \in 1..(Len(s) - 1) |-> IF i < k THEN s[i] ELSE s[i + 1]]
    ELSE s
IndexOf(idx, k) == IF k \in DOMAIN idx THEN idx[k] ELSE << >>
IndexPut(idx, k, v) == [x \in (DOMAIN idx) \cup {k} |-> IF x = k THEN v ELSE idx[x]]

EmptyStore ==
    [ heap |-> << >>, emails |-> << >>,
      user_emails |-> << >>, policy_emails |-> << >> ]

Stored(S, id) == InSeq(id, S.emails)

get_email(S, id) == IF Stored(S, id) THEN Some(id) ELSE None

save_email_appending(S, id, email, t) ==
    LET e1 == [email EXCEPT !.updated_at = t]
        ue == IndexOf(S.user_emails, e1.user_id)
        pe == IndexOf(S.policy_emails, e1.policy_id)
    IN  [ heap   |-> [x \in (DOMAIN S.heap) \cup {id} |->
                         IF x = id THEN e1 ELSE S.heap[x]],
          emails |-> IF Stored(S, id) THEN S.emails ELSE Append(S.emails, id),
          user_emails |->
              IF e1.user_id # ""
              THEN IndexPut(S.user_emails, e1.user_id, Append(ue, id))
              ELSE S.user_emails,
          policy_emails |->
              IF IsSet(e1.policy_id)
              THEN IndexPut(S.policy_emails, e1.policy_id, Append(pe, id))
              ELSE S.policy_emails ]

save_email(S, id, email, t) ==
    LET e1 == [email EXCEPT !.updated_at = t]
        ue == IndexOf(S.user_emails, e1.user_id)
        pe == IndexOf(S.policy_emails, e1.policy_id)
    IN  [ heap   |-> [x \in (DOMAIN S.heap) \cup {id} |->
                         IF x = id THEN e1 ELSE S.heap[x]],
          emails |-> IF Stored(S, id) THEN S.emails ELSE Append(S.emails, id),
          user_emails |->
              IF e1.user_id # "" /\ ~InSeq(id, ue)
              THEN IndexPut(S.user_emails, e1.user_id, Append(ue, id))
              ELSE S.user_emails,
          policy_emails |->
              IF IsSet(e1.policy_id) /\ ~InSeq(id, pe)
              THEN IndexPut(S.policy_emails, e1.policy_id, Append(pe, id))
              ELSE S.policy_emails ]

delete_email(S, id) ==
    IF Stored(S, id)
    THEN LET e  == S.heap[id]
             ue == IndexOf(S.user_emails, e.user_id)
             pe == IndexOf(S.policy_emails, e.policy_id)
         IN  [ heap   |-> S.heap,
               emails |-> RemoveFirst(S.emails, id),
               user_emails |->
                   IF e.user_id # "" /\ InSeq(id, ue)
                   THEN IndexPut(S.user_emails, e.user_id, RemoveFirst(ue, id))
                   ELSE S.user_emails,
               policy_emails |->
                   IF IsSet(e.policy_id) /\ InSeq(id, pe)
                   THEN IndexPut(S.policy_emails, e.policy_id, RemoveFirst(pe, id))
                   ELSE S.policy_emails ]
    ELSE S

update_email_status_without_message(S, id, status, error_message, message_id, t) ==
    IF Stored(S, id)
    THEN LET e  == S.heap[id]
             e1 == [e EXCEPT !.status = status, !.updated_at = t]
             e2 == IF status = "sent" THEN [e1 EXCEPT !.sent_at = Some(t)] ELSE e1
             e3 == IF IsSet(error_message)
                   THEN [e2 EXCEPT !.retry_count = e2.retry_count + 1]
                   ELSE e2
             e4 == IF IsSet(message_id)
                   THEN [e3 EXCEPT !.message_id = message_id]
                   ELSE e3
         IN  [S EXCEPT !.heap = [S.heap EXCEPT ![id] = e4]]
    ELSE S

update_email_status_counting_all(S, id, status, error_message, message_id, t) ==
    IF Stored(S, id)
    THEN LET e  == S.heap[id]
             e1 == [e EXCEPT !.status = status, !.updated_at = t,
                             !.retry_count = e.retry_count + 1]
             e2 == IF status = "sent" THEN [e1 EXCEPT !.sent_at = Some(t)] ELSE e1
             e3 == IF IsSet(error_message)
                   THEN [e2 EXCEPT !.error_message = error_message]
                   ELSE e2
             e4 == IF IsSet(message_id)
                   THEN [e3 EXCEPT !.message_id = message_id]
                   ELSE e3
         IN  [S EXCEPT !.heap = [S.heap EXCEPT ![id] = e4]]
    ELSE S

(* update_email_status: error_message and message_id are Optional; a       *)
(* present error message also counts one more retry.                       *)
update_email_status(S, id, status, error_message, message_id, t) ==
    IF Stored(S, id)
    THEN LET e  == S.heap[id]
             e1 == [e EXCEPT !.status = status, !.updated_at = t]
             e2 == IF status = "sent" THEN [e1 EXCEPT !.sent_at = Some(t)] ELSE e1
             e3 == IF IsSet(error_message)
                   THEN [e2 EXCEPT !.error_message = error_message,
                                   !.retry_count = e2.retry_count + 1]
                   ELSE e2
             e4 == IF IsSet(message_id)
                   THEN [e3 EXCEPT !.message_id = message_id]
                   ELSE e3
         IN  [S EXCEPT !.heap = [S.heap EXCEPT ![id] = e4]]
    ELSE S

(* What update_email_status returns: the record, or None for an id that is *)
(* not in the store.                                                       *)
update_email_status_returns(S, id) == IF Stored(S, id) THEN Some(id) ELSE None

priority_order_none(p) == 0

priority_order(p) ==
    CASE p = "urgent" -> 0
      [] p = "high"   -> 1
      [] p = "normal" -> 2
      [] p = "low"    -> 3
      [] OTHER        -> 2

SortKeyLessByPriority(S, a, b) ==
    priority_order(S.heap[a].priority) < priority_order(S.heap[b].priority)

(* The sort key of get_pending_emails, compared as Python compares tuples. *)
SortKeyLess(S, a, b) ==
    \/ priority_order(S.heap[a].priority) < priority_order(S.heap[b].priority)
    \/ /\ priority_order(S.heap[a].priority) = priority_order(S.heap[b].priority)
       /\ S.heap[a].scheduled_at < S.heap[b].scheduled_at

(* list.sort is stable: x goes after every element that is not greater. *)
InsertStable(S, sorted, x) ==
    LET after == {i \in 1..Len(sorted) : ~SortKeyLess(S, x, sorted[i])}
        k     == IF after = {} THEN 0 ELSE CHOOSE i \in after : \A j \in after : j <= i
    IN  [i \in 1..(Len(sorted) + 1) |->
            IF i <= k THEN sorted[i]
            ELSE IF i = k + 1 THEN x
            ELSE sorted[i - 1]]

RECURSIVE SortPending(_, _, _)
SortPending(S, todo, sorted) ==
    IF todo = << >> THEN sorted
    ELSE SortPending(S, Tail(todo), InsertStable(S, sorted, Head(todo)))

SelectPending(S, before) ==
    SelectSeq(S.emails, LAMBDA id : S.heap[id].status = "pending")

SelectPendingDue(S, before) ==
    SelectSeq(S.emails,
              LAMBDA id : S.heap[id].status = "pending"
                          /\ S.heap[id].scheduled_at <= before)

get_pending_emails(S, before, limit) ==
    LET pending == SortPending(S, SelectPendingDue(S, before), << >>)
    IN  SubSeq(pending, 1, IF Len(pending) < limit THEN Len(pending) ELSE limit)


(* get_emails_by_user: the ids of the user's index that are stored, the    *)
(* optional status filter, the stable sort by scheduled_at descending      *)
(* (sort with reverse=True keeps equal elements in their order), then the  *)
(* page.                                                                   *)
InsertByScheduledDesc(S, sorted, x) ==
    LET after == {i \in 1..Len(sorted) :
                     S.heap[sorted[i]].scheduled_at >= S.heap[x].scheduled_at}
        k     == IF after = {} THEN 0 ELSE CHOOSE i \in after : \A j \in after : j <= i
    IN  [i \in 1..(Len(sorted) + 1) |->
            IF i <= k THEN sorted[i]
            ELSE IF i = k + 1 THEN x
            ELSE sorted[i - 1]]

RECURSIVE SortByScheduledDesc(_, _, _)
SortByScheduledDesc(S, todo, sorted) ==
    IF todo = << >> THEN sorted
    ELSE SortByScheduledDesc(S, Tail(todo), InsertByScheduledDesc(S, sorted, Head(todo)))

get_emails_by_user(S, user_id, status, limit, offset) ==
    LET email_ids == IndexOf(S.user_emails, user_id)
        stored    == SelectSeq(email_ids, LAMBDA eid : Stored(S, eid))
        filtered  == IF IsSet(status)
                     THEN SelectSeq(stored, LAMBDA eid : S.heap[eid].status = Val(status))
                     ELSE stored
        sorted    == SortByScheduledDesc(S, filtered, << >>)
        last      == IF Len(sorted) < offset + limit THEN Len(sorted) ELSE offset + limit
    IN  SubSeq(sorted, offset + 1, last)

(* get_emails_by_policy: the stored ids of the policy's index, sorted by   *)
(* scheduled_at descending.                                                *)
get_emails_by_policy(S, policy_id) ==
    SortByScheduledDesc(S,
        SelectSeq(IndexOf(S.policy_emails, policy_id), LAMBDA eid : Stored(S, eid)),
        << >>)

(* count_emails: the stored records of the user (every record for an empty *)
(* user id) with the optional status.                                      *)
count_emails(S, user_id, status) ==
    LET byUser   == IF IsSet(user_id) /\ Val(user_id) # ""
                    THEN SelectSeq(S.emails, LAMBDA id : S.heap[id].user_id = Val(user_id))
                    ELSE S.emails
        byStatus == IF IsSet(status)
                    THEN SelectSeq(byUser, LAMBDA id : S.heap[id].status = Val(status))
                    ELSE byUser
    IN  Len(byStatus)

(* --------------------------- recurrence -------------------------------- *)
HasNextTime(email) == email.recurrence \in {"daily", "weekly", "monthly"}

NextTime(email) ==
    CASE email.recurrence = "daily"   -> email.scheduled_at + DailyDays
      [] email.recurrence = "weekly"  -> email.scheduled_at + WeeklyDays
      [] email.recurrence = "monthly" -> email.scheduled_at + MonthlyDays

CreatesNextBeforeEnd(email) ==
    /\ HasNextTime(email)
    /\ ~(IsSet(email.recurrence_end) /\ NextTime(email) >= Val(email.recurrence_end))
    /\ ~(IsSet(email.recurrence_count) /\ Val(email.recurrence_count) <= 0)

(* Whether _schedule_next_recurrence reaches its save_email call. *)
CreatesNext(email) ==
    /\ HasNextTime(email)
    /\ ~(IsSet(email.recurrence_end) /\ NextTime(email) > Val(email.recurrence_end))
    /\ ~(IsSet(email.recurrence_count) /\ Val(email.recurrence_count) <= 0)

NextCountKept(email) == email.recurrence_count

(* recurrence_count - 1 if recurrence_count else None: 0 counts as unset. *)
NextCount(email) ==
    IF IsSet(email.recurrence_count) /\ Val(email.recurrence_count) # 0
    THEN Some(Val(email.recurrence_count) - 1)
    ELSE None

FreshIdReused(S) == 1

(* uuid4: an id no object has had. *)
FreshId(S) == Len(S.heap) + 1

schedule_next_recurrence(S, email, t) ==
    IF CreatesNext(email)
    THEN save_email(S, FreshId(S),
                    ScheduledEmail(email.priority, NextTime(email), email.recurrence,
                                   email.recurrence_end, NextCount(email),
                                   email.user_id, email.policy_id, t),
                    t)
    ELSE S

(* ------------------------------- state --------------------------------- *)
VARIABLES
    heap, emails, user_emails, policy_emails,  \* the EmailStore
    now,        \* datetime.utcnow(), in days
    tasks,      \* the send tasks the broker holds or a worker is running
    published,  \* number of send tasks published so far
    scan,       \* the process_pending_emails run in progress
    sendnow,    \* send-now requests between their publish and their update
    attempts,   \* per id: provider chain invocations made for it
    parent,     \* per id: the record whose send created it, 0 for none
    started,    \* ids for which a send task began executing
    cancelFirst, \* ids cancelled before any send task began executing for them
    service,    \* the EmailService: its providers and primary_provider
    chain,      \* the EmailService.send_email invocation in progress
    bulk,       \* the send_bulk_emails run in progress
    templates,  \* EmailStore._templates: template id -> EmailTemplate
    response    \* what the latest request to the router was answered

storeVars == <<heap, emails, user_emails, policy_emails>>
apiVars == <<templates, response>>
chainVars == <<service, chain, bulk, apiVars>>
vars == <<heap, emails, user_emails, policy_emails, now, tasks, published, scan,
          sendnow, attempts, parent, started, cancelFirst, service, chain, bulk,
          templates, response>>

St == [ heap |-> heap, emails |-> emails,
        user_emails |-> user_emails, policy_emails |-> policy_emails ]

SetStore(S) ==
    /\ heap' = S.heap
    /\ emails' = S.emails
    /\ user_emails' = S.user_emails
    /\ policy_emails' = S.policy_emails

Ids == DOMAIN heap
StoredIds == {emails[i] : i \in 1..Len(emails)}
Tasks == DOMAIN tasks
IdleScan == [pc |-> "idle", pending |-> << >>, i |-> 0,
             queued |-> 0, urgent_count |-> 0, normal_count |-> 0]

(* The ghost maps grow with the heap: a new object has no attempts and the *)
(* given parent.                                                           *)
Grow(f, S, v) == [x \in DOMAIN S.heap |-> IF x \in DOMAIN f THEN f[x] ELSE v]

(* get_email_service() with EMAIL_PROVIDER and SENDGRID_API_KEY unset. *)
DefaultService == [providers |-> <<"smtp">>, primary_provider |-> "smtp"]

(* No invocation of EmailService.send_email is under way.  log is the    *)
(* sequence of <<provider, outcome>> of the provider.send calls of the     *)
(* latest invocation, returned the value the latest send task returned.    *)
IdleChain == [pc |-> "idle", email |-> 0, provider_name |-> None,
              providers_to_try |-> << >>, i |-> 0,
              last_error |-> None, error |-> None, result |-> None,
              log |-> << >>, returned |-> None]

InitDispatch ==
    /\ heap = EmptyStore.heap
    /\ emails = EmptyStore.emails
    /\ user_emails = EmptyStore.user_emails
    /\ policy_emails = EmptyStore.policy_emails
    /\ now = 0
    /\ tasks = << >>
    /\ published = 0
    /\ scan = IdleScan
    /\ sendnow = {}
    /\ attempts = << >>
    /\ parent = << >>
    /\ started = {}
    /\ cancelFirst = {}

(* No send_bulk_emails run is under way.  log is the sequence of <<id,     *)
(* outcome>> of the send_email calls of the latest run, returned the dict  *)
(* the latest run returned, runs the number of runs begun.                 *)
IdleBulk == [pc |-> "idle", email_ids |-> << >>, batch_size |-> 0, i |-> 0, k |-> 0,
             results |-> [total |-> 0, sent |-> 0, failed |-> 0, skipped |-> 0],
             log |-> << >>, returned |-> None, runs |-> 0]

(* A template text, as far as rendering tells texts apart: empty, plain,   *)
(* a variable alone, plain text with a variable, or malformed syntax.      *)
TemplateTexts == {"", "text", "{{x}}", "text {{x}}", "{%"}

EmailTemplate(subject, html, text, user, system) ==
    [ subject_template |-> subject, body_html_template |-> html,
      body_text_template |-> text, user_id |-> user, is_system |-> system ]

SystemTemplateIds ==
    {"renewal_reminder_30", "renewal_reminder_7", "renewal_quote", "welcome_client"}

(* _init_default_templates: four system templates, the first with a text  *)
(* body too.                                                               *)
DefaultTemplates ==
    [ id \in SystemTemplateIds |->
        EmailTemplate("text {{x}}", "text {{x}}",
                      IF id = "renewal_reminder_30"
                      THEN Some("text {{x}}") ELSE None,
                      None, TRUE) ]

InitApi ==
    /\ templates = DefaultTemplates
    /\ response = None

Init ==
    /\ InitDispatch
    /\ service = DefaultService
    /\ chain = IdleChain
    /\ bulk = IdleBulk
    /\ InitApi


(* ------------------------- inputs of the model ------------------------- *)
SchedTimes == {0, 1}
InPriorities == {"urgent", "normal"}
MessageIds == {Some("m1")}
ProviderErrors == {Some("All providers failed")}
RetentionDays == {0, 1}
(* <<recurrence, recurrence_end, recurrence_count>> of a scheduled record *)
InRecurrence ==
    { <<"none", None, None>>,
      <<"daily", None, Some(0)>>, <<"daily", None, Some(1)>>,
      <<"daily", None, Some(2)>>, <<"daily", Some(1), None>>,
      <<"daily", Some(0), Some(1)>>,
      <<"weekly", None, Some(1)>>, <<"monthly", None, Some(1)>>,
      <<"custom", None, Some(1)>> }

Roots == {id \in Ids : parent[id] = 0}

(* ------------------------------ Celery --------------------------------- *)
(* A published task message.  send_email_urgent calls send_email directly, *)
(* so only a send_email message is retried by the task runner.  provider   *)
(* is the task's optional argument, which a retry carries again.           *)
SendTask(id, urgent, eta, provider) ==
    [email |-> id, urgent |-> urgent, retries |-> 0, pc |-> "waiting", eta |-> eta,
     provider |-> provider]

(* The publishers of this package pass the record id alone. *)
Task(id, urgent, eta) == SendTask(id, urgent, eta, None)

IsUrgentChannelUrgentOnly(priority) == priority = "urgent"

IsUrgentChannel(priority) == priority \in {"urgent", "high"}

(* The broker's messages and the running tasks form a multiset: tasks maps  *)
(* a task to the number of its copies.                                     *)
Publish(T, task) ==
    [x \in (DOMAIN T) \cup {task} |->
        IF x = task THEN (IF task \in DOMAIN T THEN T[task] + 1 ELSE 1) ELSE T[x]]
Drop(T, task) ==
    IF T[task] > 1
    THEN [T EXCEPT ![task] = @ - 1]
    ELSE [x \in (DOMAIN T) \ {task} |-> T[x]]

(* ----------------------------- scheduling ------------------------------ *)
(* The request handlers run on one event loop and do not await between     *)
(* their store calls: a request starts when no other request is under way. *)
(* The Celery workers run beside them.                                     *)
ApiIdle == sendnow = {}

(* POST /email/schedule: the record is saved, then schedule_email_task     *)
(* publishes a send task with eta = scheduled_at; a publish failure is     *)
(* logged and the record is left to the dispatch scan.                     *)
ScheduleSave(prio, sched, rec, rend, user, policy, accepted) ==
    /\ ApiIdle
    /\ Cardinality(Roots) < MaxEmails
    /\ accepted => published < MaxTasks
    /\ LET id == FreshId(St)
           S1 == save_email(St, id,
                            ScheduledEmail(prio, sched, rec, rend, None, user, policy, now),
                            now)
       IN  /\ SetStore(S1)
           /\ attempts' = Grow(attempts, S1, 0)
           /\ parent' = Grow(parent, S1, 0)
           /\ IF accepted
              THEN /\ tasks' = Publish(tasks, Task(id, IsUrgentChannel(prio), sched))
                   /\ published' = published + 1
              ELSE UNCHANGED <<tasks, published>>
    /\ UNCHANGED <<now, scan, sendnow, started, cancelFirst>>

ScheduleEmail(prio, sched, rec, rend, user, policy, accepted) ==
    /\ ScheduleSave(prio, sched, rec, rend, user, policy, accepted)
    /\ UNCHANGED chainVars

(* A caller of the store saves a newly constructed record that carries a   *)
(* recurrence_count (the schedule request has no such field).              *)
SaveNew(prio, sched, rec, rend, rcount, user, policy) ==
    /\ LET id == FreshId(St)
           S1 == save_email(St, id,
                            ScheduledEmail(prio, sched, rec, rend, rcount, user, policy, now),
                            now)
       IN  /\ SetStore(S1)
           /\ attempts' = Grow(attempts, S1, 0)
           /\ parent' = Grow(parent, S1, 0)
    /\ UNCHANGED <<chainVars, now, tasks, published, scan, sendnow, started, cancelFirst>>

StoreNewEmail(prio, sched, rec, rend, rcount, user, policy) ==
    /\ Cardinality(Roots) < MaxEmails
    /\ SaveNew(prio, sched, rec, rend, rcount, user, policy)

(* A day passes.  A handler run is bounded by the task time limit and the  *)
(* request timeout, far below a day: no handler is in progress then.       *)
HandlersIdle ==
    /\ scan.pc = "idle"
    /\ sendnow = {}
    /\ \A t \in Tasks : t.pc = "waiting"

Tick ==
    /\ now < MaxTime
    /\ HandlersIdle
    /\ now' = now + 1
    /\ UNCHANGED <<chainVars, storeVars, tasks, published, scan, sendnow, attempts, parent,
                   started, cancelFirst>>

(* --------------------- process_pending_emails -------------------------- *)
ScanList ==
    /\ scan.pc = "idle"
    /\ LET pending == get_pending_emails(St, now, ScanLimit)
       IN  scan' = IF pending = << >>
                   THEN IdleScan
                   ELSE [IdleScan EXCEPT !.pc = "publish", !.pending = pending, !.i = 1]
    /\ UNCHANGED <<chainVars, storeVars, now, tasks, published, sendnow, attempts, parent,
                   started, cancelFirst>>

(* The dict the scan returns when its loop ends with the counters of sc. *)
ScanReturn(sc) ==
    [status |-> "ok", processed |-> sc.queued,
     urgent |-> sc.urgent_count, normal |-> sc.normal_count]

(* The next record of the batch, or the end of the loop: the scan returns  *)
(* without a further store or broker call.                                 *)
ScanAdvance(sc) ==
    IF sc.i < Len(sc.pending)
    THEN [sc EXCEPT !.pc = "publish", !.i = sc.i + 1]
    ELSE IdleScan

ScanAbortsBatch(sc) == IdleScan

(* The except clause of the loop body: the failure is logged and the loop  *)
(* continues.                                                              *)
ScanAfterFailure(sc) == ScanAdvance(sc)

(* send_email_urgent.delay / send_email.delay for the record at hand; a    *)
(* failing publish is logged and the loop goes on to the next record.      *)
ScanPublish(accepted) ==
    /\ scan.pc = "publish"
    /\ LET id == scan.pending[scan.i]
           urgent == IsUrgentChannel(heap[id].priority)
       IN  IF accepted
           THEN /\ published < MaxTasks
                /\ tasks' = Publish(tasks, Task(id, urgent, now))
                /\ published' = published + 1
                /\ scan' = [scan EXCEPT !.pc = "mark",
                               !.urgent_count = IF urgent THEN @ + 1 ELSE @,
                               !.normal_count = IF urgent THEN @ ELSE @ + 1]
           ELSE /\ scan' = ScanAfterFailure(scan)
                /\ UNCHANGED <<tasks, published>>
    /\ UNCHANGED <<chainVars, storeVars, now, sendnow, attempts, parent, started, cancelFirst>>

ScanCounted(sc) == [sc EXCEPT !.queued = @ + 1]

ScanMarkQueued ==
    /\ scan.pc = "mark"
    /\ LET id == scan.pending[scan.i]
       IN  /\ SetStore(update_email_status(St, id, "queued", None, None, now))
           /\ scan' = ScanAdvance(ScanCounted(scan))
    /\ UNCHANGED <<chainVars, now, tasks, published, sendnow, attempts, parent, started, cancelFirst>>


(* ------------------------------ send_email ----------------------------- *)
SkipsSendOnlySent(status) == status = "sent"

(* The status check at the start of a send task. *)
SkipsSend(status) == status \in {"sent", "cancelled"}

(* Fetch, status check, mark SENDING. *)
SendStartResultSkipsOnly(S, id) ==
    IF get_email(S, id) # None /\ SkipsSend(S.heap[id].status)
    THEN Some([status |-> "skipped", message |-> S.heap[id].status])
    ELSE None

(* What send_email._send returns before any provider call: the error dict  *)
(* for an id that is not in the store, the skipped dict for a sent or      *)
(* cancelled record; None when the task goes on to send.                   *)
SendStartResult(S, id) ==
    IF get_email(S, id) = None
    THEN Some([status |-> "error", message |-> "not found"])
    ELSE IF SkipsSend(S.heap[id].status)
    THEN Some([status |-> "skipped", message |-> S.heap[id].status])
    ELSE None

SendStartBody(t) ==
    /\ t \in Tasks
    /\ t.pc = "waiting"
    /\ t.eta <= now
    /\ LET id == t.email
       IN  /\ started' = started \cup {id}
           /\ IF get_email(St, id) = None
              THEN /\ tasks' = Drop(tasks, t)
                   /\ UNCHANGED storeVars
              ELSE IF SkipsSend(heap[id].status)
              THEN /\ tasks' = Drop(tasks, t)
                   /\ UNCHANGED storeVars
              ELSE /\ SetStore(update_email_status(St, id, "sending", None, None, now))
                   /\ tasks' = Publish(Drop(tasks, t), [t EXCEPT !.pc = "sending"])
    /\ UNCHANGED <<now, published, scan, sendnow, attempts, parent, cancelFirst>>

SendStart(t) ==
    /\ SendStartBody(t)
    /\ UNCHANGED chainVars

(* The provider chain returned a result: mark SENT, then the recurrence. *)
SendOk(t, message_id) ==
    /\ t \in Tasks
    /\ t.pc = "sending"
    /\ LET id == t.email
           S1 == update_email_status(St, id, "sent", None, message_id, now)
           email == S1.heap[id]
           S2 == IF email.recurrence # "none"
                 THEN schedule_next_recurrence(S1, email, now)
                 ELSE S1
       IN  /\ SetStore(S2)
           /\ attempts' = [Grow(attempts, S2, 0) EXCEPT ![id] = @ + 1]
           /\ parent' = Grow(parent, S2, id)
           /\ tasks' = Drop(tasks, t)
    /\ UNCHANGED <<chainVars, now, published, scan, sendnow, started, cancelFirst>>

(* The status written after an EmailProviderError, from the retry count    *)
(* before the update.                                                      *)
StatusAfterFailure(email) ==
    IF email.retry_count < email.max_retries THEN "pending" ELSE "failed"

(* Whether the handler re-raises for a task-runner retry; email is the     *)
(* same object the update has just written to.                             *)
Reraises(email) == email.retry_count < email.max_retries

(* The provider chain raised EmailProviderError. *)
SendFail(t, error) ==
    /\ t \in Tasks
    /\ t.pc = "sending"
    /\ LET id == t.email
           S1 == update_email_status(St, id, StatusAfterFailure(heap[id]), error, None, now)
           raised == Reraises(S1.heap[id])
           retried == raised /\ ~t.urgent /\ t.retries < CeleryMaxRetries
       IN  /\ SetStore(S1)
           /\ attempts' = [attempts EXCEPT ![id] = @ + 1]
           /\ tasks' = IF retried
                       THEN Publish(Drop(tasks, t),
                                    [t EXCEPT !.pc = "waiting", !.retries = @ + 1,
                                              !.eta = now])
                       ELSE Drop(tasks, t)
    /\ UNCHANGED <<chainVars, now, published, scan, sendnow, parent, started, cancelFirst>>

(* Any other exception propagates to the task runner; nothing is written. *)
SendCrash(t) ==
    /\ t \in Tasks
    /\ t.pc = "sending"
    /\ attempts' = [attempts EXCEPT ![t.email] = @ + 1]
    /\ tasks' = Drop(tasks, t)
    /\ UNCHANGED <<chainVars, storeVars, now, published, scan, sendnow, parent, started, cancelFirst>>

(* ------------------------------- router -------------------------------- *)
CancellableWhileSending(status) == status \in {"pending", "queued", "sending"}

(* The status check of the cancel request. *)
Cancellable(status) == status \in {"pending", "queued"}

SendableNowPendingOnly(status) == status = "pending"

(* The status check of the send-now request. *)
SendableNow(status) == status \in {"pending", "queued"}

CancelRecordDeleted(S, id, t) == delete_email(S, id)

(* The store call of the cancel request: the record stays, its status is   *)
(* updated.                                                                *)
CancelRecord(S, id, t) == update_email_status(S, id, "cancelled", None, None, t)

(* DELETE /email/scheduled/{id}: 404 for an unknown id, 400 for a status   *)
(* that cannot be cancelled, else the status update.                       *)
CancelUpdate(id) ==
    /\ ApiIdle
    /\ IF get_email(St, id) # None /\ Cancellable(heap[id].status)
       THEN /\ SetStore(CancelRecord(St, id, now))
            /\ cancelFirst' = IF id \in started THEN cancelFirst ELSE cancelFirst \cup {id}
       ELSE UNCHANGED <<storeVars, cancelFirst>>
    /\ UNCHANGED <<now, tasks, published, scan, sendnow, attempts, parent, started>>

Cancel(id) ==
    /\ CancelUpdate(id)
    /\ UNCHANGED chainVars

(* POST /email/scheduled/{id}/send-now, up to send_email_urgent.delay:     *)
(* 404, 400 as for cancel; a failing publish ends the request with 500.    *)
SendNowPublish(id, accepted) ==
    /\ ApiIdle
    /\ IF get_email(St, id) # None /\ SendableNow(heap[id].status) /\ accepted
       THEN /\ published < MaxTasks
            /\ tasks' = Publish(tasks, Task(id, TRUE, now))
            /\ published' = published + 1
            /\ sendnow' = sendnow \cup {id}
       ELSE UNCHANGED <<tasks, published, sendnow>>
    /\ UNCHANGED <<storeVars, now, scan, attempts, parent, started, cancelFirst>>

SendNowRequest(id, accepted) ==
    /\ SendNowPublish(id, accepted)
    /\ UNCHANGED chainVars

(* send-now after the publish: the status update. *)
SendNowMark(id) ==
    /\ id \in sendnow
    /\ SetStore(update_email_status(St, id, "queued", None, None, now))
    /\ sendnow' = sendnow \ {id}
    /\ UNCHANGED <<now, tasks, published, scan, attempts, parent, started, cancelFirst>>

SendNowMarkQueued(id) ==
    /\ SendNowMark(id)
    /\ UNCHANGED chainVars

(* -------------------------- cleanup_old_emails -------------------------- *)
IsTerminal(status) == status \in {"sent", "failed", "cancelled"}

CleanupDeletesAtCutoff(email, cutoff) ==
    IsTerminal(email.status) /\ email.updated_at <= cutoff

(* The two tests of the cleanup loop. *)
CleanupDeletes(email, cutoff) == IsTerminal(email.status) /\ email.updated_at < cutoff

RECURSIVE CleanupLoop(_, _, _)
CleanupLoop(S, items, cutoff) ==
    IF items = << >> THEN S
    ELSE CleanupLoop(IF CleanupDeletes(S.heap[Head(items)], cutoff)
                     THEN delete_email(S, Head(items))
                     ELSE S,
                     Tail(items), cutoff)

Cleanup(days_to_keep) ==
    /\ LET S1 == CleanupLoop(St, emails, now - days_to_keep)
       IN  /\ SetStore(S1)
    /\ UNCHANGED <<chainVars, now, tasks, published, scan, sendnow, attempts, parent, started,
                   cancelFirst>>

(* ---------------------------- specification ---------------------------- *)
Next ==
    \/ \E prio \in InPriorities, sched \in SchedTimes, r \in InRecurrence,
          user \in Users, accepted \in BOOLEAN :
          ScheduleEmail(prio, sched, r[1], r[2], user, None, accepted)
    \/ \E prio \in InPriorities, sched \in SchedTimes, r \in InRecurrence,
          user \in Users :
          StoreNewEmail(prio, sched, r[1], r[2], r[3], user, None)
    \/ Tick
    \/ ScanList
    \/ \E accepted \in BOOLEAN : ScanPublish(accepted)
    \/ ScanMarkQueued
    \/ \E t \in Tasks : SendStart(t)
    \/ \E t \in Tasks, m \in MessageIds : SendOk(t, m)
    \/ \E t \in Tasks, e \in ProviderErrors : SendFail(t, e)
    \/ \E t \in Tasks : SendCrash(t)
    \/ \E id \in Ids \cup {0} : Cancel(id)
    \/ \E id \in Ids \cup {0}, accepted \in BOOLEAN : SendNowRequest(id, accepted)
    \/ \E id \in Ids : SendNowMarkQueued(id)
    \/ \E d \in RetentionDays : Cleanup(d)

Spec == Init /\ [][Next]_vars

(* What the deployment keeps doing: a worker takes every published send    *)
(* task whose eta has come, a send task that has begun ends (the provider  *)
(* calls time out, the task has a time limit), the beat schedule runs the  *)
(* dispatch scan and the cleanup again and again, a request handler that   *)
(* has begun goes on, and time passes.  Nothing obliges a client to send   *)
(* a request.                                                              *)
Fairness ==
    /\ WF_vars(\E t \in Tasks : SendStart(t))
    /\ WF_vars(\E t \in Tasks :
                  \/ \E m \in MessageIds : SendOk(t, m)
                  \/ \E e \in ProviderErrors : SendFail(t, e)
                  \/ SendCrash(t))
    /\ WF_vars(ScanList)
    /\ WF_vars(\E accepted \in BOOLEAN : ScanPublish(accepted))
    /\ WF_vars(ScanMarkQueued)
    /\ WF_vars(\E id \in Ids : SendNowMarkQueued(id))
    /\ WF_vars(\E d \in RetentionDays : Cleanup(d))
    /\ WF_vars(Tick)

SpecFair == Spec /\ Fairness

(* ------------------- the store under the dispatch scan ----------------- *)
(* Records of every priority, without recurrence, saved into the store    *)
(* while the dispatch scan lists and enqueues the due ones.                *)
StoreDueEmail(prio, sched, user) ==
    /\ Len(heap) < MaxStored
    /\ SaveNew(prio, sched, "none", None, None, user, None)

NextScan ==
    \/ \E prio \in EmailPriority, sched \in SchedTimes, user \in Users :
          StoreDueEmail(prio, sched, user)
    \/ Tick
    \/ ScanList
    \/ \E accepted \in BOOLEAN : ScanPublish(accepted)
    \/ ScanMarkQueued

SpecScan == Init /\ [][NextScan]_vars

(* ------------------- EmailService.send_email: the chain ---------------- *)
(* _init_providers registers smtp, then sendgrid; set_microsoft_token adds *)
(* microsoft_graph: the dict keeps this order whichever of them exist.     *)
ProviderNames == <<"smtp", "sendgrid", "microsoft_graph">>

Registrations ==
    { SelectSeq(ProviderNames, LAMBDA n : n \in R) :
        R \in SUBSET {ProviderNames[k] : k \in 1..Len(ProviderNames)} }

(* A configured primary or a requested provider may name no provider. *)
NamedProviders == {"smtp", "sendgrid", "microsoft_graph", "ses"}

Services == [providers : Registrations, primary_provider : NamedProviders]

RequestedProviders == {None} \cup {Some(n) : n \in NamedProviders}

(* The requested provider alone when it is the first choice: the mutation *)
(* that forgets the fallbacks.                                             *)
providers_to_try_first(svc, provider_name) ==
    IF IsSet(provider_name) /\ InSeq(Val(provider_name), svc.providers)
    THEN <<Val(provider_name)>>
    ELSE svc.providers

(* The list send_email builds before its loop. *)
providers_to_try(svc, provider_name) ==
    LET first == IF IsSet(provider_name) /\ InSeq(Val(provider_name), svc.providers)
                 THEN <<Val(provider_name)>>
                 ELSE IF InSeq(svc.primary_provider, svc.providers)
                 THEN <<svc.primary_provider>>
                 ELSE << >>
    IN  first \o SelectSeq(svc.providers, LAMBDA n : ~InSeq(n, first))

(* What one provider.send call can do: return a result, raise             *)
(* EmailProviderError, or raise another exception.  SMTPProvider wraps     *)
(* every exception; the two HTTP providers wrap httpx.RequestError only.   *)
ProviderOutcomes(name) ==
    IF name = "smtp" THEN {"ok", "error"} ELSE {"ok", "error", "crash"}

(* The message_id of a provider's result: the SMTP message carries no      *)
(* Message-ID header, SendGrid reads a response header that may be absent, *)
(* the Graph result has no such key.                                       *)
ProviderMessageIds(name) ==
    IF name = "sendgrid" THEN {None, Some("m1")} ELSE {None}

ProviderResultOfPrimary(name, message_id) ==
    [provider |-> service.primary_provider, message_id |-> message_id]

(* The dict a provider's send returns, as far as the send task reads it. *)
ProviderResult(name, message_id) == [provider |-> name, message_id |-> message_id]

NoProvidersError == Some(<<"No email providers available">>)

AllFailedFirstError(log) == Some(<<"All providers failed", log[1][1]>>)

(* The error raised after the loop: it carries the last provider's error,  *)
(* named here by the provider that raised it.                              *)
AllFailedError(log) == Some(<<"All providers failed", log[Len(log)][1]>>)

dispatchVars == <<storeVars, now, tasks, published, scan, sendnow, attempts,
                  parent, started, cancelFirst>>

(* A producer publishes send_email(email_id, provider). *)
PublishSend(id, provider) ==
    /\ published < MaxTasks
    /\ tasks' = Publish(tasks, SendTask(id, FALSE, now, provider))
    /\ published' = published + 1
    /\ UNCHANGED <<chainVars, storeVars, now, scan, sendnow, attempts, parent,
                   started, cancelFirst>>

(* One worker process: a send task starts when no other one is running. *)
WorkerSendStart(t) ==
    /\ chain.pc = "idle"
    /\ \A u \in Tasks : u.pc = "waiting"
    /\ SendStart(t)

(* send_email up to its loop. *)
ChainBegin(t) ==
    /\ t \in Tasks
    /\ t.pc = "sending"
    /\ chain.pc = "idle"
    /\ LET ptt == providers_to_try(service, t.provider)
       IN  chain' = IF ptt = << >>
                    THEN [IdleChain EXCEPT !.pc = "raised", !.email = t.email,
                                           !.provider_name = t.provider,
                                           !.error = NoProvidersError]
                    ELSE [IdleChain EXCEPT !.pc = "trying", !.email = t.email,
                                           !.provider_name = t.provider,
                                           !.providers_to_try = ptt, !.i = 1]
    /\ UNCHANGED <<dispatchVars, service, bulk, apiVars>>

(* One pass of the loop: the provider.send call and what follows it. *)
ChainTry(outcome, message_id) ==
    /\ chain.pc = "trying"
    /\ LET name == chain.providers_to_try[chain.i]
           log == Append(chain.log, <<name, outcome>>)
       IN  /\ outcome \in ProviderOutcomes(name)
           /\ message_id \in ProviderMessageIds(name)
           /\ chain' =
                 CASE outcome = "ok" ->
                        [chain EXCEPT !.pc = "returned", !.log = log,
                           !.result = Some(ProviderResult(name, message_id))]
                   [] outcome = "error" ->
                        IF chain.i < Len(chain.providers_to_try)
                        THEN [chain EXCEPT !.i = @ + 1, !.log = log,
                                           !.last_error = Some(name)]
                        ELSE [chain EXCEPT !.pc = "raised", !.log = log,
                                           !.last_error = Some(name),
                                           !.error = AllFailedError(log)]
                   [] OTHER ->
                        [chain EXCEPT !.pc = "crashed", !.log = log]
    /\ UNCHANGED <<dispatchVars, service, bulk, apiVars>>

(* The send task after the chain returned, raised, or let an exception     *)
(* through.                                                                *)
ChainReturn(t) ==
    /\ chain.pc = "returned"
    /\ SendOk(t, Val(chain.result).message_id)

ChainRaise(t) ==
    /\ chain.pc = "raised"
    /\ SendFail(t, chain.error)

ChainCrash(t) ==
    /\ chain.pc = "crashed"
    /\ SendCrash(t)

(* What the send task hands back to its caller: a dict, or the exception   *)
(* it re-raised (None here).                                               *)
TaskReturn ==
    LET email == heap[chain.email]
    IN  CASE chain.pc = "returned" ->
               Some([status |-> "sent", provider |-> Val(chain.result).provider,
                     message_id |-> Val(chain.result).message_id])
          [] chain.pc = "raised" /\ ~Reraises(email) ->
               Some([status |-> "failed", error |-> chain.error,
                     retries |-> email.retry_count])
          [] OTHER -> None

(* The send task is over. *)
ChainEnd ==
    /\ chain.pc \in {"returned", "raised", "crashed"}
    /\ \A u \in Tasks : u.pc = "waiting"
    /\ chain' = [chain EXCEPT !.pc = "idle", !.returned = TaskReturn]
    /\ UNCHANGED <<dispatchVars, service, bulk, apiVars>>

InitChain ==
    /\ InitDispatch
    /\ service \in Services
    /\ chain = IdleChain
    /\ bulk = IdleBulk
    /\ InitApi

NextChain ==
    \/ \E prio \in InPriorities : StoreNewEmail(prio, 0, "none", None, None, "u1", None)
    \/ \E id \in StoredIds, p \in RequestedProviders : PublishSend(id, p)
    \/ \E t \in Tasks : WorkerSendStart(t)
    \/ \E t \in Tasks : ChainBegin(t)
    \/ \E o \in {"ok", "error", "crash"}, m \in {None, Some("m1")} : ChainTry(o, m)
    \/ \E t \in Tasks : ChainReturn(t)
    \/ \E t \in Tasks : ChainRaise(t)
    \/ \E t \in Tasks : ChainCrash(t)
    \/ ChainEnd

SpecChain == InitChain /\ [][NextChain]_vars

(* --------------------------- send_bulk_emails -------------------------- *)
MaxBulk == 3
MaxBulkStored == 2
MaxBulkRuns == 2
MaxBatchSize == 2

(* The lists of ids handed to a bulk send: stored and unknown ids, with    *)
(* repetitions.                                                            *)
BulkLists ==
    UNION {[1..n -> 1..MaxBulkStored] : n \in 0..MaxBulk}

BatchSizes == 1..MaxBatchSize

(* What the provider chain of an inline send does: it returns, raises      *)
(* EmailProviderError, or lets another exception through.                  *)
ChainOutcomes == {"ok", "error", "crash"}

(* An exception of send_email left out of the counters. *)
BulkCountResultsOnly(results, outcome) ==
    CASE outcome = "sent" -> [results EXCEPT !.sent = @ + 1]
      [] outcome = "skipped" -> [results EXCEPT !.skipped = @ + 1]
      [] outcome = "raised" -> results
      [] OTHER -> [results EXCEPT !.failed = @ + 1]

(* The counter a send_email result, or the exception it raised, adds to. *)
BulkCount(results, outcome) ==
    CASE outcome = "sent" -> [results EXCEPT !.sent = @ + 1]
      [] outcome = "skipped" -> [results EXCEPT !.skipped = @ + 1]
      [] OTHER -> [results EXCEPT !.failed = @ + 1]

(* After one id: the next id of the batch, the pause before the next       *)
(* batch, or the return of the results.                                    *)
BulkAdvance(b, outcome) ==
    LET n == Len(b.email_ids)
        batch_len == IF b.i + b.batch_size <= n THEN b.batch_size ELSE n - b.i
        counted == [b EXCEPT !.results = BulkCount(@, outcome),
                             !.log = Append(@, <<b.email_ids[b.i + b.k], outcome>>)]
    IN  IF b.k < batch_len
        THEN [counted EXCEPT !.pc = "batch", !.k = @ + 1]
        ELSE IF b.i + b.batch_size < n
        THEN [counted EXCEPT !.pc = "sleep"]
        ELSE [counted EXCEPT !.pc = "idle", !.returned = Some(counted.results)]

(* send_bulk_emails up to its loop; an empty list returns at once. *)
BulkStart(email_ids, batch_size) ==
    /\ bulk.pc = "idle"
    /\ bulk.runs < MaxBulkRuns
    /\ LET b == [IdleBulk EXCEPT !.email_ids = email_ids, !.batch_size = batch_size,
                                 !.results.total = Len(email_ids),
                                 !.runs = bulk.runs + 1]
       IN  bulk' = IF email_ids = << >>
                   THEN [b EXCEPT !.returned = Some(b.results)]
                   ELSE [b EXCEPT !.pc = "batch", !.i = 0, !.k = 1]
    /\ UNCHANGED <<dispatchVars, service, chain, apiVars>>

(* send_email(email_id) called in place, up to the provider chain: the     *)
(* record is unknown or is skipped, or it is marked SENDING.               *)
BulkSendStart ==
    /\ bulk.pc = "batch"
    /\ LET id == bulk.email_ids[bulk.i + bulk.k]
       IN  IF get_email(St, id) = None
           THEN /\ bulk' = BulkAdvance(bulk, "error")
                /\ UNCHANGED <<storeVars, started>>
           ELSE /\ started' = started \cup {id}
                /\ IF SkipsSend(heap[id].status)
                   THEN /\ bulk' = BulkAdvance(bulk, "skipped")
                        /\ UNCHANGED storeVars
                   ELSE /\ SetStore(update_email_status(St, id, "sending", None, None, now))
                        /\ bulk' = [bulk EXCEPT !.pc = "sending"]
    /\ UNCHANGED <<service, chain, apiVars, now, tasks, published, scan, sendnow,
                   attempts, parent, cancelFirst>>

(* The rest of the send_email call: its result, or the exception that the  *)
(* loop of the bulk send catches.                                          *)
BulkSendFinish(outcome) ==
    /\ bulk.pc = "sending"
    /\ LET id == bulk.email_ids[bulk.i + bulk.k]
           ok == update_email_status(St, id, "sent", None, None, now)
           S1 == CASE outcome = "ok" ->
                        IF ok.heap[id].recurrence # "none"
                        THEN schedule_next_recurrence(ok, ok.heap[id], now)
                        ELSE ok
                   [] outcome = "error" ->
                        update_email_status(St, id, StatusAfterFailure(heap[id]),
                                            AllFailedError(<<<<"smtp", "error">>>>),
                                            None, now)
                   [] OTHER -> St
           result == CASE outcome = "ok" -> "sent"
                       [] outcome = "error" ->
                            IF Reraises(S1.heap[id]) THEN "raised" ELSE "failed"
                       [] OTHER -> "raised"
       IN  /\ SetStore(S1)
           /\ attempts' = [Grow(attempts, S1, 0) EXCEPT ![id] = @ + 1]
           /\ parent' = Grow(parent, S1, id)
           /\ bulk' = BulkAdvance(bulk, result)
    /\ UNCHANGED <<service, chain, apiVars, now, tasks, published, scan, sendnow,
                   started, cancelFirst>>

(* time.sleep between two batches. *)
BulkSleep ==
    /\ bulk.pc = "sleep"
    /\ bulk' = [bulk EXCEPT !.pc = "batch", !.i = @ + bulk.batch_size, !.k = 1]
    /\ UNCHANGED <<dispatchVars, service, chain, apiVars>>

StoreBulkEmail ==
    /\ Len(heap) < MaxBulkStored
    /\ SaveNew("normal", 0, "none", None, None, "u1", None)

NextBulk ==
    \/ StoreBulkEmail
    \/ \E id \in Ids : Cancel(id)
    \/ \E l \in BulkLists, bs \in BatchSizes : BulkStart(l, bs)
    \/ BulkSendStart
    \/ \E o \in ChainOutcomes : BulkSendFinish(o)
    \/ BulkSleep

SpecBulk == Init /\ [][NextBulk]_vars

(* ------------------------ the router's requests ------------------------ *)
(* jinja2 Template(text).render with the variables, default Undefined:    *)
(* malformed syntax raises TemplateError, an undefined variable renders as *)
(* nothing.                                                                *)
Render(text, variables) ==
    CASE text = "{%" -> [ok |-> FALSE, out |-> ""]
      [] text = "{{x}}" -> [ok |-> TRUE, out |-> IF "x" \in variables THEN "v" ELSE ""]
      [] text = "text {{x}}" ->
            [ok |-> TRUE, out |-> IF "x" \in variables THEN "text v" ELSE "text "]
      [] OTHER -> [ok |-> TRUE, out |-> text]

(* Python truth of an Optional[str]. *)
Truthy(o) == IsSet(o) /\ Val(o) # ""

ScheduleRequests ==
    [ template_id : {None, Some("welcome_client"), Some("custom"), Some("unknown")},
      template_variables : {{}, {"x"}},
      subject : {"", "s"},
      body_html : {None, Some(""), Some("h")},
      body_text : {None, Some("t")} ]

(* The template resolution of schedule_email: the subject and the bodies   *)
(* the checks see, or the status code of the rejection.                    *)
ResolveTemplate(T, req) ==
    LET direct == [code |-> 200, subject |-> req.subject,
                   body_html |-> req.body_html, body_text |-> req.body_text]
    IN  IF ~IsSet(req.template_id) THEN direct
        ELSE IF Val(req.template_id) \notin DOMAIN T THEN [direct EXCEPT !.code = 404]
        ELSE LET tpl == T[Val(req.template_id)]
                 subj == Render(tpl.subject_template, req.template_variables)
                 html == Render(tpl.body_html_template, req.template_variables)
                 text == IF Truthy(tpl.body_text_template)
                         THEN Render(Val(tpl.body_text_template), req.template_variables)
                         ELSE [ok |-> TRUE, out |-> ""]
             IN  IF ~(subj.ok /\ html.ok /\ text.ok) THEN [direct EXCEPT !.code = 400]
                 ELSE [code |-> 200, subject |-> subj.out, body_html |-> Some(html.out),
                       body_text |-> IF Truthy(tpl.body_text_template)
                                     THEN Some(text.out) ELSE req.body_text]

ScheduleCheckSubjectOnly(T, req) ==
    LET r == ResolveTemplate(T, req)
    IN  IF r.code # 200 THEN r.code
        ELSE IF r.subject = "" THEN 400
        ELSE 200

(* The status code schedule_email answers a request with. *)
ScheduleCheck(T, req) ==
    LET r == ResolveTemplate(T, req)
    IN  IF r.code # 200 THEN r.code
        ELSE IF r.subject = "" THEN 400
        ELSE IF ~Truthy(r.body_html) /\ ~Truthy(r.body_text) THEN 400
        ELSE 200

Response(op, code) == Some([op |-> op, code |-> code])

(* POST /email/schedule with its checks. *)
ScheduleHttp(req, prio, sched, user, accepted) ==
    LET code == ScheduleCheck(templates, req)
    IN  /\ ApiIdle
        /\ response' = Response("schedule", code)
        /\ IF code = 200
           THEN ScheduleSave(prio, sched, "none", None, user, None, accepted)
           ELSE UNCHANGED dispatchVars
        /\ UNCHANGED <<service, chain, bulk, templates>>

(* The ids and contents a caller sends to POST /email/templates: the id   *)
(* is a field of the request body.                                         *)
InTemplateIds == {"custom", "welcome_client"}
InTemplateContents ==
    { <<"text", "text", None>>, <<"{{x}}", "{{x}}", Some("{{x}}")>>,
      <<"{%", "text", None>> }

get_template(T, id) == IF id \in DOMAIN T THEN Some(T[id]) ELSE None

(* EmailStore.save_template: the template is stored under its id. *)
save_template(T, id, template) ==
    [x \in (DOMAIN T) \cup {id} |-> IF x = id THEN template ELSE T[x]]

(* EmailStore.delete_template: a system template and an unknown id are     *)
(* left alone.                                                             *)
delete_template(T, id) ==
    IF id \in DOMAIN T /\ ~T[id].is_system
    THEN [x \in (DOMAIN T) \ {id} |-> T[x]]
    ELSE T

(* POST /email/templates: the caller's template, owned by the caller. *)
CreateTemplate(id, content, user) ==
    /\ ApiIdle
    /\ templates' = save_template(templates, id,
                        EmailTemplate(content[1], content[2], content[3],
                                      Some(user), FALSE))
    /\ response' = Response("create_template", 200)
    /\ UNCHANGED <<dispatchVars, service, chain, bulk>>

(* DELETE /email/templates/{id}: 404, 403 for a system template, else the  *)
(* deletion.                                                               *)
DeleteTemplate(id) ==
    /\ ApiIdle
    /\ IF get_template(templates, id) = None
       THEN /\ response' = Response("delete_template", 404)
            /\ UNCHANGED templates
       ELSE IF templates[id].is_system
       THEN /\ response' = Response("delete_template", 403)
            /\ UNCHANGED templates
       ELSE /\ templates' = delete_template(templates, id)
            /\ response' = Response("delete_template", 200)
    /\ UNCHANGED <<dispatchVars, service, chain, bulk>>

(* DELETE /email/scheduled/{id} and its answer. *)
CancelHttp(id) ==
    /\ CancelUpdate(id)
    /\ response' = Response("cancel",
                       IF get_email(St, id) = None THEN 404
                       ELSE IF ~Cancellable(heap[id].status) THEN 400
                       ELSE 200)
    /\ UNCHANGED <<service, chain, bulk, templates>>

(* POST /email/scheduled/{id}/send-now up to the publish: the answer when  *)
(* the request ends there.                                                 *)
SendNowHttp(id, accepted) ==
    /\ SendNowPublish(id, accepted)
    /\ response' = IF get_email(St, id) = None THEN Response("send_now", 404)
                   ELSE IF ~SendableNow(heap[id].status) THEN Response("send_now", 400)
                   ELSE IF ~accepted THEN Response("send_now", 500)
                   ELSE None
    /\ UNCHANGED <<service, chain, bulk, templates>>

(* send-now after the publish: the status update and the answer. *)
SendNowMarkHttp(id) ==
    /\ SendNowMark(id)
    /\ response' = Response("send_now", 200)
    /\ UNCHANGED <<service, chain, bulk, templates>>

(* ------------------------ the store's operations ----------------------- *)
(* The callers of the store: save_email with a record the caller built     *)
(* (under a new id or the id of a record built before), delete_email and   *)
(* update_email_status.                                                    *)
MaxStoreIds == 2
StoreUsers == {"u1", "u2"}
StorePolicies == {None, Some("p1"), Some("p2")}
StoreStatuses == {"sent"}

SaveEmail(id, user, policy) ==
    /\ id <= MaxStoreIds
    /\ SetStore(save_email(St, id,
                           ScheduledEmail("normal", 0, "none", None, None, user, policy, now),
                           now))
    /\ attempts' = [x \in (DOMAIN attempts) \cup {id} |-> 0]
    /\ parent' = [x \in (DOMAIN parent) \cup {id} |-> 0]
    /\ UNCHANGED <<chainVars, now, tasks, published, scan, sendnow, started, cancelFirst>>

DeleteEmail(id) ==
    /\ SetStore(delete_email(St, id))
    /\ UNCHANGED <<chainVars, now, tasks, published, scan, sendnow, attempts, parent,
                   started, cancelFirst>>

UpdateEmailStatus(id, status) ==
    /\ SetStore(update_email_status(St, id, status, None, None, now))
    /\ UNCHANGED <<chainVars, now, tasks, published, scan, sendnow, attempts, parent,
                   started, cancelFirst>>

NextStore ==
    \/ \E id \in Ids \cup {FreshId(St)}, user \in StoreUsers, policy \in StorePolicies :
          SaveEmail(id, user, policy)
    \/ \E id \in Ids \cup {0} : DeleteEmail(id)
    \/ \E id \in Ids \cup {0}, status \in StoreStatuses : UpdateEmailStatus(id, status)

SpecStore == Init /\ [][NextStore]_vars

(* ------------------- dispatch without unexpected errors ---------------- *)
(* The dispatch of scheduled records when the broker accepts every message *)
(* of the scan and every provider call ends with a result or with an       *)
(* EmailProviderError: the requests of the clients, the beat's scans, the  *)
(* workers' send tasks and the clock.                                      *)
NextLive ==
    \/ \E prio \in InPriorities, sched \in SchedTimes, accepted \in BOOLEAN :
          ScheduleEmail(prio, sched, "none", None, "u1", None, accepted)
    \/ Tick
    \/ ScanList
    \/ ScanPublish(TRUE)
    \/ ScanMarkQueued
    \/ \E t \in Tasks : SendStart(t)
    \/ \E t \in Tasks, m \in MessageIds : SendOk(t, m)
    \/ \E t \in Tasks, e \in ProviderErrors : SendFail(t, e)
    \/ \E id \in Ids \cup {0} : Cancel(id)
    \/ \E id \in Ids \cup {0}, accepted \in BOOLEAN : SendNowRequest(id, accepted)
    \/ \E id \in Ids : SendNowMarkQueued(id)

(* The beat publishes process_pending_emails every 30 seconds, the workers *)
(* take every message of their queues and run it to its end, a request     *)
(* handler runs to its end, and time passes. The clients owe no request.   *)
FairnessLive ==
    /\ WF_vars(\E t \in Tasks : SendStart(t))
    /\ WF_vars(\E t \in Tasks :
                  \/ \E m \in MessageIds : SendOk(t, m)
                  \/ \E e \in ProviderErrors : SendFail(t, e))
    /\ WF_vars(ScanList)
    /\ WF_vars(ScanPublish(TRUE))
    /\ WF_vars(ScanMarkQueued)
    /\ WF_vars(\E id \in Ids : SendNowMarkQueued(id))
    /\ WF_vars(Tick)

SpecLive == Init /\ [][NextLive]_vars /\ FairnessLive

(* ----------------------- send tasks and deletion ----------------------- *)
(* Send tasks of records that may be deleted or cancelled before the task  *)
(* runs; chain.returned holds what the latest task returned before any     *)
(* provider call.                                                          *)
SendTaskRun(t) ==
    /\ SendStartBody(t)
    /\ chain' = [chain EXCEPT !.returned = SendStartResult(St, t.email)]
    /\ UNCHANGED <<service, bulk, apiVars>>

NextGone ==
    \/ \E prio \in InPriorities : StoreNewEmail(prio, 0, "none", None, None, "u1", None)
    \/ \E id \in StoredIds : PublishSend(id, None)
    \/ \E id \in Ids \cup {0} : DeleteEmail(id)
    \/ \E id \in Ids \cup {0} : Cancel(id)
    \/ \E t \in Tasks : SendTaskRun(t)
    \/ \E t \in Tasks, m \in MessageIds : SendOk(t, m)
    \/ \E t \in Tasks, e \in ProviderErrors : SendFail(t, e)

SpecGone == Init /\ [][NextGone]_vars

(* GET /email/scheduled: the page of the user's list, read with one record *)
(* more than the page holds, and the count of the user's records.          *)
list_scheduled_emails(S, user_id, status, page, page_size) ==
    LET offset == (page - 1) * page_size
        listed == get_emails_by_user(S, user_id, status, page_size + 1, offset)
    IN  [ emails    |-> SubSeq(listed, 1,
                               IF Len(listed) < page_size THEN Len(listed) ELSE page_size),
          total     |-> count_emails(S, Some(user_id), status),
          page      |-> page,
          page_size |-> page_size,
          has_more  |-> Len(listed) > page_size ]

(* The schedule requests and the template requests of the clients. *)
NextSchedule ==
    \/ \E req \in ScheduleRequests, accepted \in BOOLEAN :
          ScheduleHttp(req, "normal", 0, "u1", accepted)
    \/ \E id \in InTemplateIds, c \in InTemplateContents : CreateTemplate(id, c, "u1")
    \/ \E id \in InTemplateIds \cup {"unknown"} : DeleteTemplate(id)

SpecSchedule == Init /\ [][NextSchedule]_vars

(* The requests on a scheduled record, with the workers' send tasks. *)
NextApi ==
    \/ \E prio \in InPriorities, accepted \in BOOLEAN :
          ScheduleEmail(prio, 0, "none", None, "u1", None, accepted)
    \/ \E id \in Ids \cup {0} : CancelHttp(id)
    \/ \E id \in Ids \cup {0}, accepted \in BOOLEAN : SendNowHttp(id, accepted)
    \/ \E id \in Ids : SendNowMarkHttp(id)
    \/ \E t \in Tasks : SendStart(t)
    \/ \E t \in Tasks, m \in MessageIds : SendOk(t, m)

SpecApi == Init /\ [][NextApi]_vars





(* ------------------------------- claims -------------------------------- *)
TasksFor(id) == {t \in Tasks : t.email = id}

(* C1: retry exhaustion.  A record that has failed max_retries provider    *)
(* attempts has status failed and retry_count = max_retries; since every   *)
(* failed attempt counts one retry, a larger retry_count is one more       *)
(* attempt.                                                                *)
C1_RetryExhaustion ==
    \A id \in StoredIds :
        heap[id].retry_count >= heap[id].max_retries
            => /\ heap[id].status = "failed"
               /\ heap[id].retry_count = heap[id].max_retries

(* C2: a send task that starts on a record whose status is sent or         *)
(* cancelled ends in that step, before the provider call: the count of     *)
(* provider calls and the store (every field of every record, the indexes) *)
(* are unchanged.                                                          *)
C2_SkipLeavesStoreUnchanged ==
    [][\A t \in Tasks :
          (/\ SendStart(t)
           /\ Stored(St, t.email)
           /\ heap[t.email].status \in {"sent", "cancelled"})
          => /\ UNCHANGED <<storeVars, attempts>>
             /\ tasks' = Drop(tasks, t)]_vars

(* C2 witness: a record cancelled before any task ran for it, for which a  *)
(* task has since started and ended without a provider call.               *)
C2_Witness ==
    \E id \in StoredIds :
        /\ id \in cancelFirst
        /\ id \in started
        /\ heap[id].status = "cancelled"
        /\ attempts[id] = 0
        /\ TasksFor(id) = {}

(* C3: once a stored record's status is sent, failed or cancelled, no step *)
(* changes it while the record stays in the store.                         *)
C3_TerminalStatusesStay ==
    [][\A id \in StoredIds :
          (IsTerminal(heap[id].status) /\ id \in StoredIds')
          => heap'[id].status = heap[id].status]_vars

(* C4: a stored record's sent_at is set exactly when its status is sent.   *)
C4_SentAtIffSent ==
    \A id \in StoredIds : IsSet(heap[id].sent_at) <=> heap[id].status = "sent"

(* C5: a status changes to cancelled only from pending or queued; a cancel *)
(* request on a record in any other status leaves the store unchanged, and *)
(* on a pending or queued record it sets the status to cancelled.          *)
C5_CancelPrecondition ==
    [][\A id \in Ids :
          /\ (heap'[id].status = "cancelled" /\ heap[id].status # "cancelled")
             => heap[id].status \in {"pending", "queued"}
          /\ (Cancel(id) /\ Stored(St, id)
              /\ heap[id].status \in {"sending", "sent", "failed", "cancelled"})
             => UNCHANGED storeVars
          /\ (Cancel(id) /\ Stored(St, id) /\ heap[id].status \in {"pending", "queued"})
             => heap'[id].status = "cancelled"]_vars

(* C5 witness: a cancel request has succeeded on a record. *)
C5_Witness ==
    \E id \in StoredIds : id \in cancelFirst /\ heap[id].status = "cancelled"

(* C6: for a record cancelled before any send task began executing for it, *)
(* no provider call is ever made.                                          *)
C6_NoCallAfterEarlyCancel ==
    \A id \in cancelFirst : attempts[id] = 0

(* The rank the ordering rule gives a priority, and the limits and times    *)
(* a listing is asked with.                                                *)
PriorityRank(p) ==
    CASE p = "urgent" -> 1 [] p = "high" -> 2 [] p = "normal" -> 3 [] p = "low" -> 4

Limits == (1..MaxLimit) \cup {ScanLimit}
Times == 0..MaxTime

InOrder(a, b) ==
    \/ PriorityRank(heap[a].priority) < PriorityRank(heap[b].priority)
    \/ /\ heap[a].priority = heap[b].priority
       /\ heap[a].scheduled_at <= heap[b].scheduled_at

(* C7: for every store, time and limit, get_pending_emails returns its     *)
(* records urgent before high before normal before low, and records of     *)
(* equal priority by ascending scheduled_at.                               *)
C7_DueOrdering ==
    \A before \in Times, limit \in Limits :
        LET due == get_pending_emails(St, before, limit)
        IN  \A i, j \in 1..Len(due) : i < j => InOrder(due[i], due[j])

(* C7 witness: a scan has listed three records that were saved in the      *)
(* reverse of the order it lists them in: an urgent one saved last, then   *)
(* two low ones of which the earlier scheduled was saved later.            *)
C7_Witness ==
    /\ scan.pc = "publish"
    /\ scan.pending = <<3, 2, 1>>
    /\ emails = <<1, 2, 3>>
    /\ heap[3].priority = "urgent"
    /\ heap[2].priority = "low" /\ heap[1].priority = "low"
    /\ heap[2].scheduled_at < heap[1].scheduled_at

UrgentDue(before) ==
    {id \in StoredIds : /\ heap[id].priority = "urgent"
                        /\ heap[id].status = "pending"
                        /\ heap[id].scheduled_at <= before}

(* C8: an urgent record that is pending and due, with fewer than limit     *)
(* urgent records due, is in get_pending_emails(now, limit) whatever       *)
(* lower-priority records are due; the dispatch scan lists it ahead of     *)
(* every record of lower priority, and the scan's accepted publish for a   *)
(* listed record puts its send task on the record's channel and is         *)
(* followed by the mark as queued.                                         *)
C8_UrgentNotStarved ==
    /\ [](\A limit \in Limits, id \in UrgentDue(now) :
              Cardinality(UrgentDue(now)) < limit
                  => InSeq(id, get_pending_emails(St, now, limit)))
    /\ [][/\ ScanList
             => \A id \in UrgentDue(now) :
                    \E k \in 1..Len(scan'.pending) :
                        /\ scan'.pending[k] = id
                        /\ \A j \in 1..(k - 1) :
                               heap[scan'.pending[j]].priority = "urgent"
          /\ (scan.pc = "publish" /\ ScanPublish(TRUE))
             => /\ scan'.pc = "mark"
                /\ scan'.i = scan.i
                /\ tasks' = Publish(tasks,
                                    Task(scan.pending[scan.i],
                                         heap[scan.pending[scan.i]].priority
                                             \in {"urgent", "high"},
                                         now))
          /\ (ScanMarkQueued /\ Stored(St, scan.pending[scan.i]))
             => heap'[scan.pending[scan.i]].status = "queued"]_vars

(* C8 witness: a scan has enqueued an urgent record ahead of a low one     *)
(* that was saved and scheduled before it.                                 *)
C8_Witness ==
    /\ scan.pc = "publish"
    /\ scan.i = 2
    /\ LET u == scan.pending[1]
           l == scan.pending[2]
       IN  /\ heap[u].priority = "urgent" /\ heap[l].priority = "low"
           /\ heap[l].scheduled_at < heap[u].scheduled_at
           /\ l < u
           /\ heap[u].status = "queued"
           /\ Task(u, TRUE, now) \in Tasks

(* The records created, directly or through successors, by sends of r. *)
RECURSIVE IsDescendant(_, _)
IsDescendant(id, r) ==
    /\ parent[id] # 0
    /\ (parent[id] = r \/ IsDescendant(parent[id], r))

Successors(r) == {id \in Ids : IsDescendant(id, r)}

(* C9: a daily/weekly/monthly record created with recurrence_count = n and *)
(* no recurrence_end never has more than n successors over the whole chain *)
(* of sends of it and of its successors.                                   *)
C9_RecurrenceTermination ==
    \A r \in Roots :
        (/\ HasNextTime(heap[r])
         /\ IsSet(heap[r].recurrence_count)
         /\ ~IsSet(heap[r].recurrence_end))
        => Cardinality(Successors(r)) <= Val(heap[r].recurrence_count)

(* What C10 says of a step in which the provider succeeds for record id:   *)
(* the original is sent with sent_at set, and exactly one record is new:   *)
(* pending, stored under a fresh id, retry_count 0, scheduled one interval *)
(* after the original's scheduled_at, with one occurrence less to go.      *)
SuccessorCreated(id) ==
    /\ heap'[id].status = "sent"
    /\ IsSet(heap'[id].sent_at)
    /\ Cardinality(StoredIds' \ StoredIds) = 1
    /\ Len(heap') = Len(heap) + 1
    /\ LET new == Len(heap')
       IN  /\ StoredIds' \ StoredIds = {new}
           /\ heap'[new].status = "pending"
           /\ heap'[new].retry_count = 0
           /\ heap'[new].scheduled_at =
                  heap[id].scheduled_at
                  + (CASE heap[id].recurrence = "daily" -> 1
                       [] heap[id].recurrence = "weekly" -> 7
                       [] heap[id].recurrence = "monthly" -> 30)
           /\ heap'[new].recurrence_count = Some(Val(heap[id].recurrence_count) - 1)

SucceedsFor(id) == \E t \in Tasks, m \in MessageIds : t.email = id /\ SendOk(t, m)

CountedRecurring(email) ==
    /\ email.recurrence \in {"daily", "weekly", "monthly"}
    /\ IsSet(email.recurrence_count)
    /\ Val(email.recurrence_count) >= 1

(* C10 as stated: every successful send of a daily, weekly or monthly      *)
(* record with recurrence_count >= 1 creates the successor record.         *)
C10_SuccessorAlways ==
    [][\A id \in StoredIds :
          (SucceedsFor(id) /\ CountedRecurring(heap[id])) => SuccessorCreated(id)]_vars

(* C10 amended: ... provided recurrence_end is unset or not earlier than   *)
(* the original's scheduled_at plus the interval.                          *)
C10_SuccessorUnlessEnded ==
    [][\A id \in StoredIds :
          (/\ SucceedsFor(id)
           /\ CountedRecurring(heap[id])
           /\ (IsSet(heap[id].recurrence_end)
               => heap[id].scheduled_at
                  + (CASE heap[id].recurrence = "daily" -> 1
                       [] heap[id].recurrence = "weekly" -> 7
                       [] heap[id].recurrence = "monthly" -> 30)
                  <= Val(heap[id].recurrence_end)))
          => SuccessorCreated(id)]_vars

(* C10 witness: a successor of a sent record, scheduled a day after the    *)
(* original although the original was sent later than scheduled.           *)
C10_Witness ==
    \E id \in StoredIds :
        /\ parent[id] # 0
        /\ heap[parent[id]].status = "sent"
        /\ heap[parent[id]].sent_at # Some(heap[parent[id]].scheduled_at)
        /\ heap[id].status = "pending"
        /\ heap[id].scheduled_at = heap[parent[id]].scheduled_at + 1
        /\ heap[id].recurrence_count = Some(0)

(* C11: a successful send adds at most one record to the store, under an   *)
(* id no record has had; the sent record keeps its scheduled_at and        *)
(* recurrence_count and, while stored, has status sent after the step; no  *)
(* other stored record changes.                                            *)
C11_ExpansionKeepsParent ==
    [][\A t \in Tasks, m \in MessageIds :
          SendOk(t, m)
          => LET id == t.email
                 new == StoredIds' \ StoredIds
             IN  /\ Cardinality(new) <= 1
                 /\ new \cap Ids = {}
                 /\ StoredIds \subseteq StoredIds'
                 /\ heap'[id].scheduled_at = heap[id].scheduled_at
                 /\ heap'[id].recurrence_count = heap[id].recurrence_count
                 /\ heap'[id].recurrence = heap[id].recurrence
                 /\ Stored(St, id) => heap'[id].status = "sent"
                 /\ \A x \in Ids \ {id} : heap'[x] = heap[x]]_vars

(* C11 witness: a weekly record, sent, beside the successor its send       *)
(* created; the parent still carries its own count and time.               *)
C11_Witness ==
    \E id \in StoredIds :
        /\ parent[id] # 0
        /\ parent[id] # id
        /\ parent[id] \in StoredIds
        /\ heap[parent[id]].status = "sent"
        /\ heap[parent[id]].recurrence = "weekly"
        /\ heap[parent[id]].recurrence_count = Some(1)
        /\ heap[id].recurrence_count = Some(0)
        /\ heap[id].scheduled_at = heap[parent[id]].scheduled_at + 7

(* The next timestamp of a recurring record, as the stop rule counts it. *)
NextStamp(email) ==
    email.scheduled_at
    + (CASE email.recurrence = "daily" -> 1
         [] email.recurrence = "weekly" -> 7
         [] email.recurrence = "monthly" -> 30
         [] OTHER -> 0)

Recurring(email) == email.recurrence \in {"daily", "weekly", "monthly"}

(* C12: in a successful send no successor is created when the next         *)
(* timestamp is strictly greater than recurrence_end, when                 *)
(* recurrence_count is set and <= 0, or when the recurrence is none or     *)
(* custom; one is created when the next timestamp equals recurrence_end    *)
(* and when recurrence_count is unset, unless the other rule stops it.     *)
C12_StopConditions ==
    [][\A t \in Tasks, m \in MessageIds :
          SendOk(t, m)
          => LET e == heap[t.email]
                 created == StoredIds' \ StoredIds # {}
                 ended == IsSet(e.recurrence_end)
                          /\ NextStamp(e) > Val(e.recurrence_end)
                 used == IsSet(e.recurrence_count) /\ Val(e.recurrence_count) <= 0
             IN  /\ ~Recurring(e) => ~created
                 /\ ended => ~created
                 /\ used => ~created
                 /\ (/\ Recurring(e)
                     /\ IsSet(e.recurrence_end)
                     /\ NextStamp(e) = Val(e.recurrence_end)
                     /\ ~used) => created
                 /\ (Recurring(e) /\ ~IsSet(e.recurrence_count) /\ ~ended)
                    => created]_vars

(* C12 witness: a successor created at the boundary (the next timestamp    *)
(* equals recurrence_end, recurrence_count unset), itself sent without a   *)
(* successor, its next timestamp being past recurrence_end.                *)
C12_Witness ==
    \E id \in StoredIds :
        /\ parent[id] # 0
        /\ ~IsSet(heap[parent[id]].recurrence_count)
        /\ heap[parent[id]].recurrence_end = Some(NextStamp(heap[parent[id]]))
        /\ heap[id].scheduled_at = Val(heap[id].recurrence_end)
        /\ heap[id].status = "sent"
        /\ \A x \in Ids : parent[x] # id


(* The invocation of the chain has ended: returned, raised, or let an      *)
(* exception through.                                                      *)
ChainOver == chain.pc \in {"returned", "raised", "crashed"}

Failed(log, n) == \E k \in 1..Len(log) : log[k] = <<n, "error">>

Registered == {service.providers[k] : k \in 1..Len(service.providers)}

(* C13: provider chain outcome.  An invocation that returns hands back the *)
(* result of the first provider in try order whose send succeeded: every   *)
(* provider before it raised EmailProviderError, and no provider is        *)
(* invoked after it.  An invocation raises EmailProviderError exactly when *)
(* every registered provider's send raised EmailProviderError, which       *)
(* includes the service without providers; when a provider was tried the   *)
(* error raised is the aggregate one and carries the last provider's       *)
(* error.                                                                  *)
C13_ChainOutcome ==
    /\ [](LET log == chain.log
              n == Len(log)
          IN  /\ chain.pc = "returned"
                   => /\ n >= 1
                      /\ log[n] = <<chain.providers_to_try[n], "ok">>
                      /\ Val(chain.result).provider = chain.providers_to_try[n]
                      /\ \A k \in 1..(n - 1) :
                            log[k] = <<chain.providers_to_try[k], "error">>
              /\ ChainOver
                   => (chain.pc = "raised" <=> \A p \in Registered : Failed(log, p))
              /\ chain.pc = "raised"
                   => /\ IsSet(chain.error)
                      /\ n = 0 => Registered = {}
                      /\ n >= 1 => chain.error =
                                     Some(<<"All providers failed", log[n][1]>>))
    /\ [][chain.pc = "returned" => chain'.log = chain.log]_vars

(* The first provider failed, the second succeeded, the third was not      *)
(* invoked.                                                                *)
C13_Witness ==
    /\ chain.pc = "returned"
    /\ Len(chain.providers_to_try) = 3
    /\ Len(chain.log) = 2
    /\ chain.log[1][2] = "error"


Position(seq, x) == CHOOSE k \in 1..Len(seq) : seq[k] = x

(* The provider tried first: the requested one when it is registered, else *)
(* the configured primary when it is registered, else none in particular.  *)
FirstChoice(requested) ==
    IF IsSet(requested) /\ Val(requested) \in Registered THEN requested
    ELSE IF service.primary_provider \in Registered THEN Some(service.primary_provider)
    ELSE None

(* C14: provider try order.  The list of one invocation holds every        *)
(* registered provider once; it starts with the requested provider if one  *)
(* is requested and registered, otherwise with the primary if registered;  *)
(* the providers after that first choice follow in registration order.     *)
(* The providers attempted are a prefix of the list, each attempted once.  *)
C14_TryOrder ==
    chain.pc # "idle"
    => LET list == chain.providers_to_try
           first == FirstChoice(chain.provider_name)
           rest == IF IsSet(first) THEN 2..Len(list) ELSE 1..Len(list)
           log == chain.log
       IN  /\ {list[k] : k \in 1..Len(list)} = Registered
           /\ Len(list) = Cardinality(Registered)
           /\ IsSet(first) => list[1] = Val(first)
           /\ \A a, b \in rest :
                 a < b => Position(service.providers, list[a])
                            < Position(service.providers, list[b])
           /\ Len(log) <= Len(list)
           /\ \A k \in 1..Len(log) : log[k][1] = list[k]
           /\ \A a, b \in 1..Len(log) : a # b => log[a][1] # log[b][1]

(* The requested provider is registered last and is not the primary: it is *)
(* tried first, then the two others in registration order.                 *)
C14_Witness ==
    /\ chain.pc = "raised"
    /\ chain.provider_name = Some("microsoft_graph")
    /\ service.primary_provider = "sendgrid"
    /\ Len(chain.log) = 3
    /\ chain.log[1][1] = "microsoft_graph"
    /\ chain.log[2][1] = "smtp"
    /\ chain.log[3][1] = "sendgrid"


(* Two providers are registered, the primary among them, no provider is    *)
(* requested, and so far every send of the primary raised                  *)
(* EmailProviderError and every send of the other one returned.            *)
FailingPrimary ==
    /\ Cardinality(Registered) = 2
    /\ service.primary_provider \in Registered
    /\ chain.email # 0
    /\ chain.provider_name = None
    /\ \A k \in 1..Len(chain.log) :
          chain.log[k][2] = IF chain.log[k][1] = service.primary_provider
                            THEN "error" ELSE "ok"

Secondary == CHOOSE n \in Registered : n # service.primary_provider

(* conjuncts of C15 *)
FallbackAttempts ==
    chain.log = << <<service.primary_provider, "error">>, <<Secondary, "ok">> >>

(* C15: provider fallback end to end.  With a primary provider that always *)
(* fails and a secondary that always succeeds, the chain of a send task    *)
(* attempts the primary once, then the secondary once, and returns the     *)
(* secondary's result; the first send task of a new pending record ends    *)
(* with the record sent, the secondary's name in the task's result, and    *)
(* the record's retry_count and error_message as they were.                *)
C15_FallbackEndToEnd ==
    /\ [](FailingPrimary /\ ChainOver
            => /\ chain.pc = "returned"
               /\ FallbackAttempts
               /\ Val(chain.result).provider = Secondary)
    /\ [](FailingPrimary /\ chain.pc = "idle" /\ attempts[chain.email] = 1
            => LET email == heap[chain.email]
               IN  /\ FallbackAttempts
                   /\ email.status = "sent"
                   /\ IsSet(email.sent_at)
                   /\ IsSet(chain.returned)
                   /\ Val(chain.returned).status = "sent"
                   /\ Val(chain.returned).provider = Secondary
                   /\ email.retry_count = 0
                   /\ email.error_message = None)
    /\ [][\A t \in Tasks :
            ChainReturn(t)
            => /\ heap'[t.email].retry_count = heap[t.email].retry_count
               /\ heap'[t.email].error_message = heap[t.email].error_message]_vars

(* The first send task of a record is over: smtp, the primary, failed and  *)
(* sendgrid sent the message.                                              *)
C15_Witness ==
    /\ FailingPrimary
    /\ chain.pc = "idle"
    /\ attempts[chain.email] = 1
    /\ service.primary_provider = "smtp"
    /\ FallbackAttempts
    /\ heap[chain.email].status = "sent"
    /\ Val(chain.returned).provider = "sendgrid"


(* C16: cleanup boundary.  A cleanup run with cutoff = now - retention     *)
(* deletes exactly the stored records in status sent, failed or cancelled  *)
(* whose updated_at is strictly before the cutoff: a terminal record       *)
(* updated at the cutoff stays, a pending, queued or sending record stays  *)
(* whatever its age, and the records that stay are unchanged and keep      *)
(* their order.                                                            *)
C16_CleanupBoundary ==
    [][\A d \in RetentionDays :
          Cleanup(d)
          => LET cutoff == now - d
                 old(id) == /\ heap[id].status \in {"sent", "failed", "cancelled"}
                            /\ heap[id].updated_at < cutoff
             IN  /\ StoredIds' = {id \in StoredIds : ~old(id)}
                 /\ emails' = SelectSeq(emails, LAMBDA id : ~old(id))
                 /\ \A id \in StoredIds :
                       /\ heap[id].status \in {"pending", "queued", "sending"}
                            => id \in StoredIds'
                       /\ heap[id].updated_at = cutoff => id \in StoredIds'
                 /\ \A id \in Ids : heap'[id] = heap[id]]_vars

(* A sent record a day old is gone; its pending successor, as old, is      *)
(* still stored.                                                           *)
C16_Witness ==
    /\ now = 1
    /\ \E id \in Ids \ StoredIds, kept \in StoredIds :
          /\ heap[id].status = "sent"
          /\ heap[id].updated_at = 0
          /\ heap[kept].status = "pending"
          /\ heap[kept].updated_at = 0


(* C17: cleanup alone removes records.  A step in which a stored record id *)
(* leaves the store is a step of a cleanup run: scheduling, the dispatch   *)
(* scan, the send tasks with the recurrence expansion, cancel and send-now *)
(* keep every stored id.                                                   *)
C17_OnlyCleanupRemoves ==
    [][~(StoredIds \subseteq StoredIds') => \E d \in RetentionDays : Cleanup(d)]_vars

(* A record was cancelled, another was sent and expanded, and both are     *)
(* still stored with the successor.                                        *)
C17_Witness ==
    /\ Ids = StoredIds
    /\ \E a, b \in StoredIds :
          /\ heap[a].status = "sent"
          /\ parent[b] = a
          /\ heap[b].status = "cancelled"


(* The records of the running scan's batch for which a task is in the      *)
(* broker: under the dispatch scan alone, those the scan enqueued.         *)
Enqueued(T, sc) == {k \in 1..Len(sc.pending) : \E t \in DOMAIN T : t.email = sc.pending[k]}

(* C18: batch isolation in the dispatch scan.  A failing publish leaves    *)
(* its record pending with no task and the scan goes on to the next record *)
(* of the batch; a record whose publish succeeded is marked queued; the    *)
(* records of the batch already handled are queued exactly when they were  *)
(* enqueued, the others pending; the processed count the scan returns is   *)
(* the number of records it enqueued.                                      *)
C18_BatchIsolation ==
    /\ [](scan.pc # "idle"
            => /\ \A k \in 1..(scan.i - 1) :
                    heap[scan.pending[k]].status =
                        IF k \in Enqueued(tasks, scan) THEN "queued" ELSE "pending"
               /\ scan.queued = Cardinality({k \in Enqueued(tasks, scan) : k < scan.i}))
    /\ [][/\ ScanPublish(FALSE)
             => /\ heap'[scan.pending[scan.i]].status = "pending"
                /\ UNCHANGED <<storeVars, tasks>>
                /\ scan.i < Len(scan.pending)
                     => /\ scan'.pc = "publish"
                        /\ scan'.i = scan.i + 1
                        /\ scan'.pending = scan.pending
          /\ ScanMarkQueued
             => /\ heap'[scan.pending[scan.i]].status = "queued"
                /\ scan.i \in Enqueued(tasks, scan)
          /\ (ScanPublish(FALSE) \/ ScanMarkQueued) /\ scan'.pc = "idle"
             => LET last == IF scan.pc = "mark" THEN ScanCounted(scan) ELSE scan
                IN  ScanReturn(last).processed = Cardinality(Enqueued(tasks', scan))]_vars

(* The publish for the first record of a batch of three failed, the one    *)
(* for the second succeeded, and the scan is at the third.                 *)
C18_Witness ==
    /\ scan.pc = "publish"
    /\ scan.i = 3
    /\ heap[scan.pending[1]].status = "pending"
    /\ 1 \notin Enqueued(tasks, scan)
    /\ heap[scan.pending[2]].status = "queued"
    /\ 2 \in Enqueued(tasks, scan)
    /\ scan.queued = 1


(* C19: bulk send accounting.  Whatever the list of ids, the batch size    *)
(* (at least 1) and the outcome of each send (sent, skipped, failed for    *)
(* good, unknown record, exception), the bulk send calls send_email for    *)
(* the ids of the list one by one in list order, each position once, and   *)
(* the counts it returns satisfy sent + failed + skipped = total = the     *)
(* number of ids; no outcome of one id ends the run before the last id.    *)
C19_BulkAccounting ==
    LET ids == bulk.email_ids
        log == bulk.log
        r == bulk.results
    IN  /\ Len(log) <= Len(ids)
        /\ \A k \in 1..Len(log) : log[k][1] = ids[k]
        /\ r.sent + r.failed + r.skipped = Len(log)
        /\ r.total = Len(ids)
        /\ bulk.pc \in {"batch", "sending"} => Len(log) = bulk.i + bulk.k - 1
        /\ bulk.pc = "sleep" => Len(log) = bulk.i + bulk.batch_size
        /\ bulk.pc = "idle" /\ bulk.runs > 0
             => /\ Len(log) = Len(ids)
                /\ bulk.returned = Some(r)
                /\ r.sent + r.failed + r.skipped = r.total
                /\ r.sent = Cardinality({k \in 1..Len(log) : log[k][2] = "sent"})
                /\ r.skipped = Cardinality({k \in 1..Len(log) : log[k][2] = "skipped"})

(* A run over three ids in batches of two is over: the first send raised,  *)
(* the second found no record, the third sent.                             *)
C19_Witness ==
    /\ bulk.pc = "idle"
    /\ bulk.batch_size = 2
    /\ Len(bulk.log) = 3
    /\ bulk.log[1][2] = "raised"
    /\ bulk.log[2][2] = "error"
    /\ bulk.log[3][2] = "sent"
    /\ Val(bulk.returned) = [total |-> 3, sent |-> 1, failed |-> 2, skipped |-> 0]


MaxIds == 4

Sending(id) == id \in Ids /\ heap[id].status = "sending"

(* C20: no record stays in status sending for ever.  Whenever a record is  *)
(* in status sending, it later has another status, also when the provider  *)
(* chain of its send task raised an exception that is not an               *)
(* EmailProviderError.                                                     *)
C20_SendingEnds == \A id \in 1..MaxIds : Sending(id) ~> ~Sending(id)


(* C21: configuration errors are not retried.  When the provider chain of  *)
(* a send task fails for want of any provider, the record is not put back  *)
(* to pending and no retry of the task is published.                       *)
C21_ConfigErrorNotRetried ==
    [][\A t \in Tasks :
          (ChainRaise(t) /\ chain.error = NoProvidersError)
          => /\ heap'[t.email].status # "pending"
             /\ \A u \in DOMAIN tasks' : u.email = t.email => u.retries <= t.retries]_vars


(* C22: rejected schedule requests never enter the store.  A request that  *)
(* names an unknown template is answered 404; one whose template does not  *)
(* render, whose subject is empty, or that has neither an HTML nor a text  *)
(* body after the template resolution is answered 400; a rejected request  *)
(* leaves the store and the broker as they were; a record enters the store *)
(* only with the answer 200, in status pending with retry_count 0.         *)
C22_RejectedNeverStored ==
    [][\A req \in ScheduleRequests, accepted \in BOOLEAN :
          ScheduleHttp(req, "normal", 0, "u1", accepted)
          => LET code == Val(response').code
                 named == IsSet(req.template_id)
                 known == named /\ Val(req.template_id) \in DOMAIN templates
                 tpl == templates[Val(req.template_id)]
                 texts == {tpl.subject_template, tpl.body_html_template}
                             \cup (IF IsSet(tpl.body_text_template)
                                   THEN {Val(tpl.body_text_template)} ELSE {})
                 unset == "x" \notin req.template_variables
                 new == StoredIds' \ StoredIds
             IN  /\ named /\ ~known => code = 404
                 /\ known /\ "{%" \in texts => code = 400
                 /\ known /\ tpl.subject_template = "" => code = 400
                 /\ known /\ tpl.subject_template = "{{x}}" /\ unset => code = 400
                 /\ ~named /\ req.subject = "" => code = 400
                 /\ ~named /\ req.body_html \in {None, Some("")}
                            /\ req.body_text \in {None, Some("")} => code = 400
                 /\ code # 200 => UNCHANGED <<storeVars, tasks, published>>
                 /\ code = 200 => Cardinality(new) = 1
                 /\ \A id \in new : /\ heap'[id].status = "pending"
                                     /\ heap'[id].retry_count = 0]_vars

(* A request without a body was answered 400 and the store is empty. *)
C22_Witness ==
    /\ response = Response("schedule", 400)
    /\ StoredIds = {}
    /\ Tasks = {}
    /\ "custom" \notin DOMAIN templates


(* C23: system templates are immutable and undeletable. After any sequence *)
(* of create-template requests (the id is the caller's choice) and         *)
(* delete-template requests, every system template of the initial store is *)
(* still stored, with is_system true and its initial content.              *)
C23_SystemTemplatesImmutable ==
    \A id \in SystemTemplateIds :
        /\ id \in DOMAIN templates
        /\ templates[id].is_system
        /\ templates[id] = DefaultTemplates[id]

(* The second half of C23: a delete request whose id names a system        *)
(* template of the initial store is answered 403 and removes nothing.      *)
C23_SystemDeleteRefused ==
    [][\A id \in SystemTemplateIds :
            DeleteTemplate(id) => /\ response' = Response("delete_template", 403)
                                  /\ templates' = templates]_vars

(* The send tasks of record id on the urgent channel, counted with their   *)
(* copies.                                                                 *)
UrgentTasksOf(T, id) ==
    LET ts == {t \in DOMAIN T : t.email = id /\ t.urgent}
        RECURSIVE Sum(_)
        Sum(X) == IF X = {} THEN 0
                  ELSE LET t == CHOOSE x \in X : TRUE IN T[t] + Sum(X \ {t})
    IN Sum(ts)

TaskCount(T) ==
    LET RECURSIVE Sum(_)
        Sum(X) == IF X = {} THEN 0
                  ELSE LET t == CHOOSE x \in X : TRUE IN T[t] + Sum(X \ {t})
    IN Sum(DOMAIN T)

(* C24: send-now on a missing record is answered 404 and on a record whose *)
(* status is neither pending nor queued 400, both with no task published   *)
(* and the store unchanged; on a pending or queued record exactly one send *)
(* task is published, on the urgent channel, and the request ends with the *)
(* record queued; when the publish fails the answer is 500 and the record  *)
(* keeps its status.                                                       *)
C24_SendNowPreconditions ==
    [][/\ \A id \in Ids \cup {0}, accepted \in BOOLEAN :
            SendNowHttp(id, accepted) =>
              LET stored == id \in DOMAIN emails
                  ok == stored /\ heap[id].status \in {"pending", "queued"}
              IN /\ ~stored => response' = Response("send_now", 404)
                 /\ (stored /\ ~ok) => response' = Response("send_now", 400)
                 /\ (ok /\ ~accepted) => response' = Response("send_now", 500)
                 /\ ~(ok /\ accepted) => UNCHANGED <<storeVars, tasks, published>>
                 /\ (ok /\ accepted) =>
                       /\ TaskCount(tasks') = TaskCount(tasks) + 1
                       /\ UrgentTasksOf(tasks', id) = UrgentTasksOf(tasks, id) + 1
                       /\ id \in sendnow'
                       /\ UNCHANGED storeVars
       /\ \A id \in Ids :
            SendNowMarkHttp(id) =>
              /\ tasks' = tasks
              /\ id \in DOMAIN emails' => heap'[id].status = "queued"
              /\ response' = Response("send_now", 200)
              /\ sendnow' = {}]_vars

(* A queued record got a send-now request: its urgent task is published    *)
(* and the request ended with 200.                                         *)
C24_Witness ==
    /\ response = Response("send_now", 200)
    /\ \E id \in DOMAIN emails :
          /\ heap[id].status = "queued"
          /\ UrgentTasksOf(tasks, id) >= 1
    /\ published = MaxTasks

(* C25: every stored record whose status is failed has a non-empty         *)
(* error_message and retry_count >= 1, get_email finds it and the list of  *)
(* its user (unfiltered, and filtered by failed) holds it; and a failed    *)
(* record leaves the store only by a cleanup step.                         *)
FailedVisible(id) ==
    /\ IsSet(heap[id].error_message)
    /\ Val(heap[id].error_message) # ""
    /\ heap[id].retry_count >= 1
    /\ get_email(St, id) = Some(id)
    /\ InSeq(id, get_emails_by_user(St, heap[id].user_id, None, Len(emails), 0))
    /\ InSeq(id, get_emails_by_user(St, heap[id].user_id, Some("failed"), Len(emails), 0))
    /\ count_emails(St, Some(heap[id].user_id), Some("failed")) >= 1

NoDuplicates(seq) == \A i, j \in 1..Len(seq) : seq[i] = seq[j] => i = j

C26_IndexConsistent ==
    /\ \A u \in StoreUsers :
          LET index == IndexOf(user_emails, u)
              owned == {id \in StoredIds : heap[id].user_id = u}
              listed == get_emails_by_user(St, u, None, Len(emails), 0)
          IN  /\ {index[i] : i \in 1..Len(index)} = owned
              /\ NoDuplicates(index)
              /\ {listed[i] : i \in 1..Len(listed)} = owned
              /\ Len(listed) = count_emails(St, Some(u), None)
    /\ \A p \in StorePolicies \ {None} :
          LET index == IndexOf(policy_emails, p)
          IN  /\ {index[i] : i \in 1..Len(index)}
                    = {id \in StoredIds : heap[id].policy_id = p}
              /\ NoDuplicates(index)

(* C27: retry_count changes only through failed send attempts. A send      *)
(* attempt of a stored record that ends with the provider chain's          *)
(* EmailProviderError adds exactly 1 to the record's retry_count; every    *)
(* other step (marking queued, sending or sent, cancel, send-now, cleanup, *)
(* an attempt that ends otherwise) leaves the retry_count of every record  *)
(* as it is; so retry_count never decreases.                               *)
FailedAttemptOf(id) ==
    \E t \in Tasks, e \in ProviderErrors : t.email = id /\ SendFail(t, e)

C27_RetryCountByFailures ==
    [][\A id \in Ids :
         /\ (FailedAttemptOf(id) /\ id \in StoredIds)
               => heap'[id].retry_count = heap[id].retry_count + 1
         /\ ~FailedAttemptOf(id) => heap'[id].retry_count = heap[id].retry_count
         /\ heap'[id].retry_count >= heap[id].retry_count]_vars

(* A record failed twice and was marked queued again afterwards. *)
C27_Witness ==
    \E id \in StoredIds :
        /\ heap[id].retry_count = 2
        /\ attempts[id] = 2
        /\ heap[id].status = "queued"

(* C28: send tasks are safe to run again. Whatever the interleaving of the *)
(* send tasks of one record, the provider chain delivers the record at     *)
(* most once (no delivery succeeds for a record whose sent_at is already   *)
(* set by an earlier delivery) and at most one successor record is made    *)
(* from it.                                                                *)
C28_SafeReexecution ==
    [][/\ \A t \in Tasks, m \in MessageIds :
            SendOk(t, m) => ~IsSet(heap[t.email].sent_at)
       /\ \A id \in Ids :
            Cardinality({c \in DOMAIN parent' : parent'[c] = id}) <= 1]_vars

(* C29: a record enters sending only from queued. No send task marks a     *)
(* record sending while it is pending, sending or failed, and every status *)
(* change of a record is one of pending->queued, queued->sending,          *)
(* sending->sent, sending->pending, sending->failed, pending->cancelled,   *)
(* queued->cancelled.                                                      *)
StatusEdges ==
    { <<"pending", "queued">>, <<"queued", "sending">>, <<"sending", "sent">>,
      <<"sending", "pending">>, <<"sending", "failed">>,
      <<"pending", "cancelled">>, <<"queued", "cancelled">> }

C29_SendingOnlyFromQueued ==
    [][/\ \A id \in Ids :
            heap'[id].status # heap[id].status
               => <<heap[id].status, heap'[id].status>> \in StatusEdges
       /\ \A t \in Tasks :
            (SendStart(t) /\ t.email \in StoredIds /\ ~SkipsSend(heap[t.email].status))
               => heap[t.email].status = "queued"]_vars

(* C30: every scheduled record ends. With the scans and the workers kept   *)
(* running and every provider call ending with a result or an              *)
(* EmailProviderError, a record that is pending and due eventually is      *)
(* sent, failed or cancelled, as long as the broker still takes messages   *)
(* (published < MaxTasks).                                                 *)
PendingDue(id) ==
    /\ id \in StoredIds
    /\ heap[id].status = "pending"
    /\ heap[id].scheduled_at <= now

Ended(id) == id \in Ids /\ IsTerminal(heap[id].status)

C30_EventuallyTerminal ==
    \A id \in 1..MaxIds : PendingDue(id) ~> (Ended(id) \/ published >= MaxTasks)

(* The state the record is left in: a scan published the record's task on  *)
(* the urgent channel, the task failed once and put the record back to     *)
(* pending, and the scan's mark-as-queued came last. No message is left,   *)
(* no scan or request is under way, and the broker would take more.        *)
StuckQueued(id) ==
    /\ id \in StoredIds
    /\ heap[id].status = "queued"
    /\ heap[id].retry_count = 1
    /\ Tasks = {}
    /\ scan.pc = "idle"
    /\ sendnow = {}
    /\ published < MaxTasks

C30_StuckQueuedReached == \A id \in 1..MaxIds : ~StuckQueued(id)

(* Only a request of a client (cancel, send-now) moves such a record. *)
C30_StuckQueuedStays ==
    [][\A id \in 1..MaxIds :
         StuckQueued(id) =>
            \/ heap'[id].status = "queued"
            \/ Cancel(id)
            \/ \E accepted \in BOOLEAN : SendNowRequest(id, accepted)]_vars

(* C31: at most one outstanding send task per record. At any time the      *)
(* broker's messages and the running tasks hold at most one send task      *)
(* (waiting, waiting for its retry, or sending) for a record id.           *)
TasksOf(T, id) ==
    LET RECURSIVE Sum(_)
        Sum(X) == IF X = {} THEN 0
                  ELSE LET t == CHOOSE x \in X : TRUE IN T[t] + Sum(X \ {t})
    IN Sum({t \in DOMAIN T : t.email = id})

C31_OneTaskPerRecord == \A id \in Ids : TasksOf(tasks, id) <= 1

(* C32: scan selection. The scan at time now lists only stored records     *)
(* that are pending with scheduled_at <= now, each once, and no more than  *)
(* its limit; the list then stays as it is while the scan goes through it  *)
(* once, in order; an accepted publish adds exactly one send task, for the *)
(* listed record at hand; the mark-as-queued writes that record only. A    *)
(* record that was not listed (not yet due, or not pending at the listing) *)
(* gets no task from the scan and is not written by it.                    *)
ListedIds(sc) == {sc.pending[k] : k \in 1..Len(sc.pending)}

C32_ScanSelection ==
    /\ [](\A limit \in Limits : Len(get_pending_emails(St, now, limit)) <= limit)
    /\ [][/\ ScanList
             => /\ \A k \in 1..Len(scan'.pending) :
                      LET id == scan'.pending[k]
                      IN  /\ id \in StoredIds
                          /\ heap[id].status = "pending"
                          /\ heap[id].scheduled_at <= now
                /\ NoDuplicates(scan'.pending)
                /\ Len(scan'.pending) <= ScanLimit
                /\ UNCHANGED <<storeVars, tasks>>
          /\ \A accepted \in BOOLEAN :
               ScanPublish(accepted)
                  => LET id == scan.pending[scan.i]
                     IN  /\ UNCHANGED storeVars
                         /\ \A other \in Ids \ {id} :
                               TasksOf(tasks', other) = TasksOf(tasks, other)
                         /\ TasksOf(tasks', id)
                               = TasksOf(tasks, id) + (IF accepted THEN 1 ELSE 0)
                         /\ accepted => scan'.pc = "mark" /\ scan'.i = scan.i
          /\ ScanMarkQueued
             => /\ tasks' = tasks
                /\ emails' = emails
                /\ \A other \in Ids \ {scan.pending[scan.i]} : heap'[other] = heap[other]
          /\ (scan.pc # "idle" /\ scan'.pc # "idle")
             => /\ scan'.pending = scan.pending
                /\ scan'.i \in {scan.i, scan.i + 1}
                /\ ((scan.pc = "mark" /\ scan' # scan) => scan'.i = scan.i + 1)]_vars

(* A scan went through its list: the record it listed is queued and has    *)
(* its task, a pending record that is not yet due has none.                *)
C32_Witness ==
    /\ scan.pc = "idle"
    /\ \E a, b \in StoredIds :
          /\ heap[a].status = "queued"
          /\ TasksOf(tasks, a) = 1
          /\ heap[b].status = "pending"
          /\ heap[b].scheduled_at > now
          /\ TasksOf(tasks, b) = 0

(* C33: channel selection. The scan's accepted publish puts the record's   *)
(* task on the urgent channel exactly when the record's priority is urgent *)
(* or high, on the normal channel exactly when it is normal or low, and    *)
(* counts it as urgent or normal accordingly; a failing publish counts     *)
(* nothing; so urgent_count + normal_count is the number of records of the *)
(* batch the scan has enqueued, during the scan and in what it returns.    *)
OnChannel(T, sc, urgent) ==
    {k \in 1..Len(sc.pending) :
        \E t \in DOMAIN T : t.email = sc.pending[k] /\ t.urgent = urgent}

C33_ChannelSelection ==
    /\ [](scan.pc # "idle"
            => /\ scan.urgent_count = Cardinality(OnChannel(tasks, scan, TRUE))
               /\ scan.normal_count = Cardinality(OnChannel(tasks, scan, FALSE))
               /\ \A k \in OnChannel(tasks, scan, TRUE) :
                     heap[scan.pending[k]].priority \in {"urgent", "high"}
               /\ \A k \in OnChannel(tasks, scan, FALSE) :
                     heap[scan.pending[k]].priority \in {"normal", "low"})
    /\ [][/\ ScanPublish(TRUE)
             => LET id == scan.pending[scan.i]
                    urgent == heap[id].priority \in {"urgent", "high"}
                IN  /\ \E t \in DOMAIN tasks' :
                          /\ t.email = id /\ t.urgent = urgent
                          /\ tasks' = Publish(tasks, t)
                    /\ scan'.urgent_count = scan.urgent_count + (IF urgent THEN 1 ELSE 0)
                    /\ scan'.normal_count = scan.normal_count + (IF urgent THEN 0 ELSE 1)
          /\ ScanPublish(FALSE)
             => /\ tasks' = tasks
                /\ scan'.pc # "idle"
                     => /\ scan'.urgent_count = scan.urgent_count
                        /\ scan'.normal_count = scan.normal_count
          /\ (ScanPublish(FALSE) \/ ScanMarkQueued) /\ scan'.pc = "idle"
             => LET last == IF scan.pc = "mark" THEN ScanCounted(scan) ELSE scan
                    r == ScanReturn(last)
                IN  /\ r.urgent + r.normal = Cardinality(Enqueued(tasks', scan))
                    /\ r.urgent = Cardinality(OnChannel(tasks', scan, TRUE))]_vars

(* The scan has enqueued a high record on the urgent channel and a low one *)
(* on the normal channel and is at the third record of its batch.          *)
C33_Witness ==
    /\ scan.pc = "publish"
    /\ scan.i = 3
    /\ scan.urgent_count = 1
    /\ scan.normal_count = 1
    /\ heap[scan.pending[1]].priority = "high"
    /\ heap[scan.pending[2]].priority = "low"
    /\ OnChannel(tasks, scan, TRUE) = {1}
    /\ OnChannel(tasks, scan, FALSE) = {2}

(* C34: not-found is a skip. A send task that runs for an id that is not   *)
(* in the store ends there: it returns the error dict, its message is      *)
(* consumed and none is published, no attempt at the providers is made, no *)
(* record is built and the store stays as it is. update_email_status for   *)
(* an id that is not in the store returns None and leaves the store as it  *)
(* is.                                                                     *)
C34_NotFoundIsSkip ==
    /\ [](\A id \in (Ids \cup {0}) \ StoredIds, status \in EmailStatus,
             e \in {None} \cup ProviderErrors, m \in {None} \cup MessageIds :
             /\ update_email_status(St, id, status, e, m, now) = St
             /\ update_email_status_returns(St, id) = None)
    /\ [][\A t \in Tasks :
            (SendTaskRun(t) /\ t.email \notin StoredIds)
               => /\ UNCHANGED storeVars
                  /\ attempts' = attempts
                  /\ tasks' = Drop(tasks, t)
                  /\ published' = published
                  /\ chain'.returned = Some([status |-> "error", message |-> "not found"])]_vars

(* The task of a deleted record ran: it returned the error dict, no        *)
(* attempt was made for the record and no message of it is left.           *)
C34_Witness ==
    /\ chain.returned = Some([status |-> "error", message |-> "not found"])
    /\ \E id \in Ids \ StoredIds :
          /\ id \in started
          /\ attempts[id] = 0
          /\ TasksOf(tasks, id) = 0

(* C35: save is idempotent on id. For every store and every record, saving *)
(* the record a second time right after the first save gives the store of  *)
(* the first save but for updated_at: the id is stored once, listed once   *)
(* in its user's index and, with a policy id, once in its policy's index,  *)
(* and get, the user's list, the policy's list and the counts answer as    *)
(* before.                                                                 *)
WithoutUpdatedAt(S) ==
    [S EXCEPT !.heap = [x \in DOMAIN S.heap |-> [S.heap[x] EXCEPT !.updated_at = 0]]]

Occurrences(seq, x) == Cardinality({i \in 1..Len(seq) : seq[i] = x})

SavedTwiceAsOnce(S, id, email) ==
    LET S1 == save_email(S, id, email, now)
        S2 == save_email(S1, id, email, now + 1)
    IN  /\ WithoutUpdatedAt(S2) = WithoutUpdatedAt(S1)
        /\ S2.heap[id].updated_at = now + 1
        /\ Occurrences(S2.emails, id) = 1
        /\ Occurrences(IndexOf(S2.user_emails, email.user_id), id) = 1
        /\ IsSet(email.policy_id)
              => Occurrences(IndexOf(S2.policy_emails, email.policy_id), id) = 1
        /\ get_email(S2, id) = get_email(S1, id)
        /\ \A u \in StoreUsers :
              /\ get_emails_by_user(S2, u, None, MaxStoreIds, 0)
                    = get_emails_by_user(S1, u, None, MaxStoreIds, 0)
              /\ count_emails(S2, Some(u), None) = count_emails(S1, Some(u), None)
        /\ \A p \in StorePolicies \ {None} :
              get_emails_by_policy(S2, p) = get_emails_by_policy(S1, p)

MaxPage == 3
MaxPageSize == 2
ListUsers == {"u1", "u2", ""}
ListFilters == {None, Some("pending"), Some("queued")}

Matching(user_id, status) ==
    {id \in StoredIds : /\ heap[id].user_id = user_id
                        /\ IsSet(status) => heap[id].status = Val(status)}

PageOf(user_id, status, page, page_size) ==
    LET r == list_scheduled_emails(St, user_id, status, page, page_size)
        M == Matching(user_id, status)
        first == (page - 1) * page_size
        rest == IF Cardinality(M) > first THEN Cardinality(M) - first ELSE 0
    IN  /\ Len(r.emails) = (IF rest < page_size THEN rest ELSE page_size)
        /\ \A k \in 1..Len(r.emails) :
              LET id == r.emails[k]
                  later == {x \in M : heap[x].scheduled_at > heap[id].scheduled_at}
                  notEarlier == {x \in M : heap[x].scheduled_at >= heap[id].scheduled_at}
              IN  /\ id \in M
                  /\ Cardinality(later) <= first + k - 1
                  /\ Cardinality(notEarlier) >= first + k
        /\ NoDuplicates(r.emails)
        /\ \A q \in 1..MaxPage :
              q # page =>
                 LET other == list_scheduled_emails(St, user_id, status, q, page_size).emails
                 IN  \A i \in 1..Len(other), k \in 1..Len(r.emails) : other[i] # r.emails[k]
        /\ r.total = Cardinality(M)
        /\ r.has_more = (Cardinality(M) > page * page_size)

C36_Pagination ==
    \A user_id \in ListUsers, status \in ListFilters,
       page \in 1..MaxPage, page_size \in 1..MaxPageSize :
        PageOf(user_id, status, page, page_size)

(* The same for the users whose id is not the empty string. *)
C36_PaginationOfNamedUsers ==
    \A user_id \in ListUsers \ {""}, status \in ListFilters,
       page \in 1..MaxPage, page_size \in 1..MaxPageSize :
        PageOf(user_id, status, page, page_size)
=============================================================================
